---------------------------- MODULE Spec2Model ----------------------------
(***************************************************************************)
(* Model of the SG&A workbook splitter (package sga_splitter).             *)
(*                                                                         *)
(* Text is modelled character by character: a Python str is a TLA+ string  *)
(* and is taken apart with Len and SubSeq, so trimming, lower-casing,      *)
(* substring tests, anchored patterns and sorting are computed, not        *)
(* assumed.  A cell value is a record [k, s, n]: k = "none" (empty cell),  *)
(* k = "str" (text s) or k = "num" (integer n).                            *)
(***************************************************************************)
EXTENDS Integers, Sequences, FiniteSets, TLC

(***************************************************************************)
(* Python str primitives                                                   *)
(***************************************************************************)

\* Characters in code point order; sorted() compares str by code point.
CodePoints == "\t\n !#$%&()*+,-./0123456789:;<=>?@ABCDEFGHIJKLMNOPQRSTUVWXYZ[]^_abcdefghijklmnopqrstuvwxyz{|}~"

UpperCase == "ABCDEFGHIJKLMNOPQRSTUVWXYZ"

LowerCase == "abcdefghijklmnopqrstuvwxyz"

Digits == "0123456789"

CharAt(s, i) == SubSeq(s, i, i)

IndexIn(c, alphabet) ==
    IF \E i \in 1..Len(alphabet) : CharAt(alphabet, i) = c
    THEN CHOOSE i \in 1..Len(alphabet) : CharAt(alphabet, i) = c
    ELSE 0

Ord(c) == IndexIn(c, CodePoints)

IsSpace(c) == c \in {" ", "\t", "\n"}

\* str.lower() on one character
LowerChar(c) ==
    IF IndexIn(c, UpperCase) > 0 THEN CharAt(LowerCase, IndexIn(c, UpperCase)) ELSE c

RECURSIVE Lower(_)
\* str.lower()
Lower(s) ==
    IF Len(s) = 0 THEN ""
    ELSE LowerChar(CharAt(s, 1)) \o Lower(SubSeq(s, 2, Len(s)))

RECURSIVE LStripChars(_, _)
\* str.lstrip(chars)
LStripChars(s, chars) ==
    IF Len(s) > 0 /\ CharAt(s, 1) \in chars
    THEN LStripChars(SubSeq(s, 2, Len(s)), chars)
    ELSE s

RECURSIVE RStripChars(_, _)
\* str.rstrip(chars)
RStripChars(s, chars) ==
    IF Len(s) > 0 /\ CharAt(s, Len(s)) \in chars
    THEN RStripChars(SubSeq(s, 1, Len(s) - 1), chars)
    ELSE s

StripChars(s, chars) == RStripChars(LStripChars(s, chars), chars)

\* str.strip(): leading and trailing whitespace removed
Strip(s) == StripChars(s, {" ", "\t", "\n"})

\* p in s
Contains(s, p) ==
    \E i \in 1..(Len(s) - Len(p) + 1) : SubSeq(s, i, i + Len(p) - 1) = p

StartsWith(s, p) == Len(p) <= Len(s) /\ SubSeq(s, 1, Len(p)) = p

EndsWith(s, p) == Len(p) <= Len(s) /\ SubSeq(s, Len(s) - Len(p) + 1, Len(s)) = p

RECURSIVE CollapseRuns(_, _, _)
\* re.sub('[chars]+', by, s), the text taken in halves
CollapseRuns(s, chars, by) ==
    IF Len(s) = 0 THEN ""
    ELSE IF Len(s) = 1 THEN (IF s \in chars THEN by ELSE s)
    ELSE LET half  == Len(s) \div 2
             left  == CollapseRuns(SubSeq(s, 1, half), chars, by)
             right == CollapseRuns(SubSeq(s, half + 1, Len(s)), chars, by)
         IN  IF CharAt(s, half) \in chars /\ CharAt(s, half + 1) \in chars
             THEN left \o SubSeq(right, Len(by) + 1, Len(right))
             ELSE left \o right

\* re.sub of whitespace runs by one space: every run of whitespace becomes one space
CollapseSpaces(s) == CollapseRuns(s, {" ", "\t", "\n"}, " ")

RECURSIVE ReplaceChars(_, _, _)
\* re.sub('[chars]', by, s), the text taken in halves
ReplaceChars(s, chars, by) ==
    IF Len(s) = 0 THEN ""
    ELSE IF Len(s) = 1 THEN (IF s \in chars THEN by ELSE s)
    ELSE ReplaceChars(SubSeq(s, 1, Len(s) \div 2), chars, by)
         \o ReplaceChars(SubSeq(s, Len(s) \div 2 + 1, Len(s)), chars, by)

RECURSIVE IntToStr(_)
\* str(n) for an int n >= 0
IntToStr(n) ==
    IF n < 10 THEN CharAt(Digits, n + 1)
    ELSE IntToStr(n \div 10) \o CharAt(Digits, (n % 10) + 1)

RECURSIVE StrLess(_, _)
\* a < b on str: lexicographic by code point
StrLess(a, b) ==
    IF Len(b) = 0 THEN FALSE
    ELSE IF Len(a) = 0 THEN TRUE
    ELSE IF CharAt(a, 1) = CharAt(b, 1)
         THEN StrLess(SubSeq(a, 2, Len(a)), SubSeq(b, 2, Len(b)))
         ELSE Ord(CharAt(a, 1)) < Ord(CharAt(b, 1))

(***************************************************************************)
(* Cell values                                                             *)
(***************************************************************************)

None == [k |-> "none", s |-> "", n |-> 0]

Text(s) == [k |-> "str", s |-> s, n |-> 0]

Num(n) == [k |-> "num", s |-> "", n |-> n]

\* a whole number held as a float, as pandas holds the integers of a numeric
\* column that has missing values
Float(n) == [k |-> "float", s |-> "", n |-> n]

\* str(value)
Str(v) ==
    IF v.k = "str" THEN v.s
    ELSE IF v.k = "num" THEN IntToStr(v.n)
    ELSE IF v.k = "float" THEN IntToStr(v.n) \o ".0"
    ELSE "None"

\* Python truthiness of a cell value: None, "" and 0 are falsy
Truthy(v) == (v.k = "str" /\ v.s # "") \/ (v.k = "num" /\ v.n # 0)

\* str(cell.value or "").strip()
CellText(v) == IF Truthy(v) THEN Strip(Str(v)) ELSE ""

(***************************************************************************)
(* File names (io_utils.py)                                                *)
(***************************************************************************)

\* the length limit of sanitize_filename
MaxFilenameLen == 200

\* the sanitize_filename of app.py, which cleans with dashes
sanitize_filename_Dash(text) ==
    IF Strip(text) = "" THEN "Unknown"
    ELSE LET replaced  == ReplaceChars(Strip(text), {"<", ">", ":", "\"", "|", "?", "*", "\\", "/"}, "-")
             sanitized == StripChars(CollapseRuns(replaced, {"-"}, "-"), {"-"})
         IN  IF sanitized = "" THEN "Unknown" ELSE sanitized

\* sanitize_filename without its last test for an empty result
sanitize_filename_NoPlaceholder(text) ==
    IF Strip(text) = "" THEN "Unknown"
    ELSE LET replaced  == ReplaceChars(Strip(text), {"<", ">", ":", "\"", "|", "?", "*", "\\", "/"}, "_")
             collapsed == CollapseSpaces(replaced)
             stripped  == StripChars(collapsed, {".", " "})
         IN  IF Len(stripped) > MaxFilenameLen
             THEN Strip(SubSeq(stripped, 1, MaxFilenameLen))
             ELSE stripped

sanitize_filename(text) ==
    IF Strip(text) = "" THEN "Unknown"
    ELSE LET replaced  == ReplaceChars(Strip(text), {"<", ">", ":", "\"", "|", "?", "*", "\\", "/"}, "_")
             collapsed == CollapseSpaces(replaced)
             stripped  == StripChars(collapsed, {".", " "})
             limited   == IF Len(stripped) > MaxFilenameLen
                          THEN Strip(SubSeq(stripped, 1, MaxFilenameLen))
                          ELSE stripped
         IN  IF limited = "" THEN "Unknown" ELSE limited

\* str.rfind('.') as a 1-based position, 0 when there is no dot
RFindDot(name) ==
    IF \E i \in 1..Len(name) : CharAt(name, i) = "."
    THEN CHOOSE i \in 1..Len(name) :
            /\ CharAt(name, i) = "."
            /\ \A j \in (i + 1)..Len(name) : CharAt(name, j) # "."
    ELSE 0

\* PurePath.suffix: the text from the last dot on, unless the dot is the
\* first or the last character of the name
PathSuffix(name) ==
    LET i == RFindDot(name)
    IN  IF 1 < i /\ i < Len(name) THEN SubSeq(name, i, Len(name)) ELSE ""

\* PurePath.stem
PathStem(name) == SubSeq(name, 1, Len(name) - Len(PathSuffix(name)))

\* PurePath.with_suffix(extension)
WithSuffix(name, extension) == PathStem(name) \o extension

\* the path generate_unique_filename tries for a counter value
NumberedPath(base_name, extension, counter) ==
    WithSuffix(PathStem(base_name) \o " #" \o IntToStr(counter), extension)

\* generate_unique_filename taking the first number without looking
generate_unique_filename_FirstNumber(base_name, extension, existing) ==
    IF WithSuffix(base_name, extension) \notin existing
    THEN [hang |-> FALSE, path |-> WithSuffix(base_name, extension)]
    ELSE [hang |-> FALSE, path |-> NumberedPath(base_name, extension, 2)]

\* generate_unique_filename(out_dir / base_name, extension), given the names
\* that exist in out_dir.  The while-loop runs until a free name is found;
\* hang = TRUE when no counter value yields one.  Counters up to
\* Cardinality(existing) + 2 decide it: the numbered paths are either
\* pairwise different or all the same.
generate_unique_filename(base_name, extension, existing) ==
    LET full_path == WithSuffix(base_name, extension)
        tries     == 2..(Cardinality(existing) + 2)
        free      == {c \in tries : NumberedPath(base_name, extension, c) \notin existing}
    IN  IF full_path \notin existing THEN [hang |-> FALSE, path |-> full_path]
        ELSE IF free = {} THEN [hang |-> TRUE, path |-> ""]
        ELSE [hang |-> FALSE,
              path |-> NumberedPath(base_name, extension,
                                    CHOOSE c \in free : \A d \in free : c <= d)]

(***************************************************************************)
(* Worksheets (openpyxl) and DataFrames (pandas)                           *)
(*                                                                         *)
(* A worksheet is a sequence of rows, a row a sequence of cell values;     *)
(* rows and columns are numbered from 1 as in openpyxl.                    *)
(***************************************************************************)

MaxRowOf(sheet) == Len(sheet)

MaxColOf(sheet) ==
    IF Len(sheet) = 0 THEN 0
    ELSE CHOOSE m \in {Len(sheet[r]) : r \in 1..Len(sheet)} :
            \A r \in 1..Len(sheet) : Len(sheet[r]) <= m

\* ws.cell(row, column).value
CellValue(sheet, row, column) ==
    IF row \in 1..Len(sheet) /\ column \in 1..Len(sheet[row])
    THEN sheet[row][column] ELSE None

\* ws.delete_rows(idx)
delete_rows(sheet, idx) ==
    IF idx \in 1..Len(sheet)
    THEN SubSeq(sheet, 1, idx - 1) \o SubSeq(sheet, idx + 1, Len(sheet))
    ELSE sheet

RECURSIVE DeleteRowsInOrder(_, _)
\* for row_idx in order: ws.delete_rows(row_idx)
DeleteRowsInOrder(sheet, order) ==
    IF order = <<>> THEN sheet
    ELSE DeleteRowsInOrder(delete_rows(sheet, Head(order)), Tail(order))

RECURSIVE Ascending(_)
\* the members of a set of integers as an ascending sequence
Ascending(S) ==
    IF S = {} THEN <<>>
    ELSE LET m == CHOOSE a \in S : \A b \in S : a <= b
         IN  <<m>> \o Ascending(S \ {m})

Reverse(seq) == [i \in 1..Len(seq) |-> seq[Len(seq) + 1 - i]]

\* The sparse view of a worksheet that the header scan reads: the largest
\* row and column holding a cell, and the cells by (row, column).
AsCells(sheet) ==
    [max_row |-> MaxRowOf(sheet),
     max_col |-> MaxColOf(sheet),
     cells   |-> [p \in {<<r, c>> : r \in 1..MaxRowOf(sheet), c \in 1..MaxColOf(sheet)}
                    |-> CellValue(sheet, p[1], p[2])]]

\* ws.cell(row, column).value on the sparse view
ValueAt(wsc, row, column) ==
    IF <<row, column>> \in DOMAIN wsc.cells THEN wsc.cells[<<row, column>>] ELSE None

Min(a, b) == IF a <= b THEN a ELSE b

Max(a, b) == IF a >= b THEN a ELSE b

(***************************************************************************)
(* Header detection (detect.py)                                            *)
(***************************************************************************)

\* rows scanned for the header
ScanRows == 50

\* columns scanned for the header
ScanCols == 20

WhiteSpace == {" ", "\t", "\n"}

\* the pattern ^first\s*[/-]?\s*second$ applied with re.match
MatchesPair(normalized, first, second) ==
    /\ Len(normalized) >= Len(first) + Len(second)
    /\ StartsWith(normalized, first)
    /\ EndsWith(normalized, second)
    /\ LET middle  == SubSeq(normalized, Len(first) + 1, Len(normalized) - Len(second))
           afterWs == LStripChars(middle, WhiteSpace)
           afterSep == IF Len(afterWs) > 0 /\ CharAt(afterWs, 1) \in {"/", "-"}
                       THEN SubSeq(afterWs, 2, Len(afterWs)) ELSE afterWs
       IN  LStripChars(afterSep, WhiteSpace) = ""

\* the header text as candidate_name_matches normalizes it
NormalizeHeader(header) == CollapseSpaces(Lower(Strip(header)))

candidate_name_matches(header) ==
    /\ header # ""
    /\ LET normalized == NormalizeHeader(header)
       IN  \/ MatchesPair(normalized, "department", "project")
           \/ MatchesPair(normalized, "project", "department")
           \/ MatchesPair(normalized, "dept", "project")
           \/ MatchesPair(normalized, "project", "dept")
           \/ normalized = "department"
           \/ normalized = "project"
           \/ normalized = "dept"

\* the populated cells of the rows and columns the locators scan; a cell
\* that is not populated reads as "" and matches nothing
ScanWindow(wsc, max_rows, max_cols) ==
    {p \in DOMAIN wsc.cells : /\ p[1] <= Min(max_rows, wsc.max_row)
                              /\ p[2] <= Min(max_cols, wsc.max_col)}

\* the least member of a non-empty set of integers
Least(S) == CHOOSE a \in S : \A b \in S : a <= b

\* detect_header_and_column scanning the whole sheet
detect_header_and_column_WholeSheet(wsc) ==
    LET hits == {p \in DOMAIN wsc.cells : candidate_name_matches(CellText(wsc.cells[p]))}
    IN  IF hits = {} THEN [found |-> FALSE, row |-> 0, col |-> 0]
        ELSE LET r == Least({p[1] : p \in hits})
                 c == Least({p[2] : p \in {q \in hits : q[1] = r}})
             IN  [found |-> TRUE, row |-> r - 1, col |-> c - 1]

\* detect_header_and_column(ws): found = FALSE stands for the ValueError;
\* row and col are 0-based as in the code.
detect_header_and_column(wsc) ==
    LET hits == {p \in ScanWindow(wsc, ScanRows, ScanCols) :
                    candidate_name_matches(CellText(wsc.cells[p]))}
    IN  IF hits = {} THEN [found |-> FALSE, row |-> 0, col |-> 0]
        ELSE LET r == Least({p[1] : p \in hits})
                 c == Least({p[2] : p \in {q \in hits : q[1] = r}})
             IN  [found |-> TRUE, row |-> r - 1, col |-> c - 1]

(***************************************************************************)
(* The multi-sheet locator (core.py)                                       *)
(***************************************************************************)

\* columns the last fallback of the locator reads
FallbackCols == 10

\* header length below which a shorter header scores higher
ShortHeaderLen == 20

\* _matches_any_pattern(header, patterns)
matches_any_pattern(header, patterns) ==
    /\ header # ""
    /\ \E i \in 1..Len(patterns) : Contains(Strip(Lower(header)), Lower(patterns[i]))

RECURSIVE PatternScore(_, _, _, _)
\* the loop over column_patterns that grades a header, from pattern i on
PatternScore(header_lower, patterns, i, match_score) ==
    IF i > Len(patterns) THEN match_score
    ELSE LET pattern == Lower(patterns[i])
             slash == Contains(header_lower, "/")
         IN  IF header_lower = pattern THEN 100
             ELSE IF StartsWith(header_lower, pattern) /\ ~slash
                  THEN PatternScore(header_lower, patterns, i + 1, 80)
             ELSE IF StartsWith(header_lower, pattern)
                  THEN PatternScore(header_lower, patterns, i + 1, 40)
             ELSE IF EndsWith(header_lower, pattern) /\ ~slash
                  THEN PatternScore(header_lower, patterns, i + 1, 70)
             ELSE IF Contains(header_lower, pattern) /\ ~slash
                  THEN PatternScore(header_lower, patterns, i + 1, Max(match_score, 60))
             ELSE IF Contains(header_lower, pattern)
                  THEN PatternScore(header_lower, patterns, i + 1, Max(match_score, 20))
             ELSE PatternScore(header_lower, patterns, i + 1, match_score)

\* the match_score of a header that matches a pattern
MatchScore(header, patterns) ==
    LET header_lower == Lower(header)
        compound == \/ Contains(header_lower, "/") \/ Contains(header_lower, "_")
                    \/ Contains(header_lower, "department")
        removed == Cardinality({rp \in {"project/department", "department/project", "unnamed"} :
                                   Contains(header_lower, rp)})
    IN  PatternScore(header_lower, patterns, 1, 0)
          - (IF compound THEN 50 ELSE 0)
          - 100 * removed
          + Max(0, ShortHeaderLen - Len(header))

\* the first loop of _detect_header_and_split_column on one row: the column
\* of the best match, 0 when the row yields none
BestMatch(wsc, r, patterns) ==
    LET \* cells: the non-empty cells of the row; score: the match_score of
        \* the cells that match a pattern, 0 for the others
        best(cells, score) ==
            LET scored == {p \in cells : score[p] > 0}
            IN  IF Cardinality(cells) < 2 \/ scored = {} THEN 0
                ELSE Least({p[2] : p \in {q \in scored :
                                             \A o \in scored : score[o] <= score[q]}})
        graded(cells) ==
            best(cells, [p \in cells |->
                            IF matches_any_pattern(CellText(wsc.cells[p]), patterns)
                            THEN MatchScore(CellText(wsc.cells[p]), patterns) ELSE 0])
    IN  graded({p \in ScanWindow(wsc, ScanRows, ScanCols) :
                   p[1] = r /\ CellText(wsc.cells[p]) # ""})

\* _detect_header_and_split_column(ws, column_patterns)
detect_header_and_split_column(wsc, patterns) ==
    LET \* the rows of a window with three non-empty cells or more
        filled(S) == {r \in {p[1] : p \in S} :
                         Cardinality({p \in S : p[1] = r /\ CellText(wsc.cells[p]) # ""}) >= 3}
        \* the last fallback: the first non-empty cell of the first filled row
        \* of the first FallbackCols columns
        last(narrow, wide) ==
            IF wide # {}
            THEN [found |-> TRUE, row |-> Least(wide) - 1,
                  col |-> Least({p[2] : p \in {q \in narrow :
                                    q[1] = Least(wide) /\ CellText(wsc.cells[q]) # ""}}) - 1]
            ELSE [found |-> FALSE, row |-> 0, col |-> 0]
        \* the fallback to detect_header_and_column
        fallback(original, narrow) ==
            IF original.found THEN original ELSE last(narrow, filled(narrow))
        \* graded: the filled rows where the first loop finds a match
        first(graded) ==
            IF graded # {}
            THEN [found |-> TRUE, row |-> Least(graded) - 1,
                  col |-> BestMatch(wsc, Least(graded), patterns) - 1]
            ELSE fallback(detect_header_and_column(wsc),
                          ScanWindow(wsc, ScanRows, FallbackCols))
    IN  first({r \in filled(ScanWindow(wsc, ScanRows, ScanCols)) :
                  BestMatch(wsc, r, patterns) # 0})

(***************************************************************************)
(* Reading the sheet and collecting the groups (io_utils.py, core.py)      *)
(***************************************************************************)

\* the name read_sheet_as_dataframe gives the column at 0-based position i
\* whose header cell holds v (pandas names an empty header "Unnamed: i")
ColumnName(v, i) ==
    IF v.k = "none" \/ StartsWith(Str(v), "Unnamed:")
    THEN "Unnamed_" \o IntToStr(i)
    ELSE Strip(Str(v))

AllEmpty(row) == \A c \in 1..Len(row) : row[c].k = "none"

\* read_sheet_as_dataframe(path, sheet_name, header_row): the rows below the
\* header that are not completely empty, under the cleaned column names
read_sheet_as_dataframe(sheet, header_row) ==
    LET width == MaxColOf(sheet)
        body == (header_row + 2)..Len(sheet)
        \* pandas reads a column of integers and missing values as float64
        asFloat(c) == /\ \A r \in body : CellValue(sheet, r, c).k \in {"none", "num"}
                      /\ \E r \in body : CellValue(sheet, r, c).k = "none"
        read(r, c) == LET v == CellValue(sheet, r, c)
                      IN  IF v.k = "num" /\ asFloat(c) THEN Float(v.n) ELSE v
        padded(r) == [c \in 1..width |-> read(r, c)]
        below == [i \in 1..Max(0, Len(sheet) - (header_row + 1))
                    |-> padded(header_row + 1 + i)]
        header(c) == CellValue(sheet, header_row + 1, c)
        \* pandas tells a repeated header apart by ".1", ".2", ...
        repeats(c) == Cardinality({d \in 1..(c - 1) : header(d) = header(c)})
        label(c) == IF header(c).k = "str" /\ repeats(c) > 0
                    THEN Text(header(c).s \o "." \o IntToStr(repeats(c)))
                    ELSE header(c)
    IN  [columns |-> [c \in 1..width |-> ColumnName(label(c), c - 1)],
         rows    |-> SelectSeq(below, LAMBDA row : ~AllEmpty(row))]

\* df[name] as a sequence of values
ColumnValues(df, name) ==
    LET c == CHOOSE j \in 1..Len(df.columns) : df.columns[j] = name
    IN  [i \in 1..Len(df.rows) |-> df.rows[i][c]]

RECURSIVE UniqueInOrder(_)
\* Series.unique(): the first occurrence of every value, in order
UniqueInOrder(seq) ==
    IF seq = <<>> THEN <<>>
    ELSE LET init == UniqueInOrder(SubSeq(seq, 1, Len(seq) - 1))
             last == seq[Len(seq)]
         IN  IF \E i \in 1..Len(init) : init[i] = last THEN init ELSE Append(init, last)

IsWordChar(c) == c = "_" \/ IndexIn(c, UpperCase) > 0 \/ IndexIn(c, LowerCase) > 0
                 \/ IndexIn(c, Digits) > 0

\* _is_total_row finding "total" anywhere in the value
is_total_row_Substring(value) ==
    value # "" /\ Contains(Lower(value), "total")

\* _is_total_row(value): the pattern \btotal\b found in value.lower()
is_total_row(value) ==
    /\ value # ""
    /\ LET low == Lower(value)
       IN  \E i \in 1..(Len(low) - 4) :
              /\ SubSeq(low, i, i + 4) = "total"
              /\ (i = 1 \/ ~IsWordChar(CharAt(low, i - 1)))
              /\ (i + 4 = Len(low) \/ ~IsWordChar(CharAt(low, i + 5)))

RECURSIVE SortedStrings(_)
\* sorted(list of str)
SortedStrings(seq) ==
    IF seq = <<>> THEN <<>>
    ELSE LET m == CHOOSE i \in 1..Len(seq) :
                    /\ \A j \in 1..Len(seq) : ~StrLess(seq[j], seq[i])
                    /\ \A j \in 1..(i - 1) : seq[j] # seq[i]
         IN  <<seq[m]>> \o SortedStrings(SubSeq(seq, 1, m - 1) \o SubSeq(seq, m + 1, Len(seq)))

\* the first loop of collect_groups: values to trimmed names, blanks and
\* totals left out
RECURSIVE GroupNames(_, _, _)
GroupNames(values, skip_totals, include_empty) ==
    IF values = <<>> THEN <<>>
    ELSE LET value == Head(values)
             rest  == GroupNames(Tail(values), skip_totals, include_empty)
             group_name == Strip(Str(value))
         IN  IF value.k = "none"
             THEN (IF include_empty THEN <<"">> \o rest ELSE rest)
             ELSE IF group_name = "" /\ ~include_empty THEN rest
             ELSE IF skip_totals /\ is_total_row(group_name) THEN rest
             ELSE <<group_name>> \o rest

\* the comparison key of the second loop of collect_groups
compare_key(group, case_insensitive) == IF case_insensitive THEN Lower(group) ELSE group

RECURSIVE DedupByKey_KeepsLast(_, _)
\* collect_groups keeping the last spelling of a key instead of the first
DedupByKey_KeepsLast(names, case_insensitive) ==
    IF names = <<>> THEN <<>>
    ELSE LET rest == DedupByKey_KeepsLast(Tail(names), case_insensitive)
         IN  IF \E i \in 1..Len(rest) :
                   compare_key(rest[i], case_insensitive)
                     = compare_key(Head(names), case_insensitive)
             THEN rest ELSE <<Head(names)>> \o rest

RECURSIVE DedupByKey(_, _)
\* the second loop of collect_groups: the first entry of every key is kept
DedupByKey(names, case_insensitive) ==
    IF names = <<>> THEN <<>>
    ELSE LET init == DedupByKey(SubSeq(names, 1, Len(names) - 1), case_insensitive)
             last == names[Len(names)]
         IN  IF \E i \in 1..Len(init) :
                   compare_key(init[i], case_insensitive) = compare_key(last, case_insensitive)
             THEN init ELSE Append(init, last)

\* collect_groups(df, dp_col_name, skip_totals, case_insensitive, include_empty)
collect_groups(values, skip_totals, case_insensitive, include_empty) ==
    LET series == IF include_empty THEN values
                  ELSE SelectSeq(values, LAMBDA v : v.k # "none")
        unique_values == UniqueInOrder(series)
        names == GroupNames(unique_values, skip_totals, include_empty)
    IN  SortedStrings(DedupByKey(names, case_insensitive))

(***************************************************************************)
(* Sheet name resolution (detect.py)                                       *)
(*                                                                         *)
(* A requested sheet name is [given, name]; given = FALSE is Python None.  *)
(***************************************************************************)

NoName == [given |-> FALSE, name |-> ""]

Named(name) == [given |-> TRUE, name |-> name]

RECURSIVE MatchedChars(_, _)
\* The sum of the sizes of SequenceMatcher(None, a, b).get_matching_blocks():
\* the longest common block (the one starting earliest in a, then earliest
\* in b), plus the same on the pieces left and right of it.
MatchedChars(a, b) ==
    LET blocks == {blk \in (1..Len(a)) \X (1..Len(b)) \X (1..Min(Len(a), Len(b))) :
                      /\ blk[1] + blk[3] - 1 <= Len(a)
                      /\ blk[2] + blk[3] - 1 <= Len(b)
                      /\ SubSeq(a, blk[1], blk[1] + blk[3] - 1)
                           = SubSeq(b, blk[2], blk[2] + blk[3] - 1)}
    IN  IF blocks = {} THEN 0
        ELSE LET best == CHOOSE x \in blocks : \A y \in blocks :
                            \/ x[3] > y[3]
                            \/ (x[3] = y[3] /\ x[1] < y[1])
                            \/ (x[3] = y[3] /\ x[1] = y[1] /\ x[2] <= y[2])
                 i == best[1]
                 j == best[2]
                 k == best[3]
             IN  k + MatchedChars(SubSeq(a, 1, i - 1), SubSeq(b, 1, j - 1))
                   + MatchedChars(SubSeq(a, i + k, Len(a)), SubSeq(b, j + k, Len(b)))

\* The similarity threshold 0.6 as the fraction ThresholdNum / ThresholdDen
ThresholdNum == 6

ThresholdDen == 10

\* SequenceMatcher(None, a, b).ratio() > 0.6, where ratio = 2 * M / T
RatioAboveThreshold(a, b) ==
    2 * MatchedChars(a, b) * ThresholdDen > ThresholdNum * (Len(a) + Len(b))

\* ratio(a, b1) > ratio(a, b2), compared as fractions
RatioGreater(a, b1, b2) ==
    MatchedChars(a, b1) * (Len(a) + Len(b2)) > MatchedChars(a, b2) * (Len(a) + Len(b1))

sga_keywords == <<"sg&a", "sga", "selling", "general", "administrative">>

summary_keywords == <<"summary", "sum", "total", "consolidated">>

\* the weight of an SG&A keyword in total_score
SgaWeight == 2

KeywordCount(keywords, name_lower) ==
    Cardinality({i \in 1..Len(keywords) : Contains(name_lower, keywords[i])})

\* total_score without the weight of the SG&A keywords
total_score_Unweighted(name) ==
    KeywordCount(sga_keywords, Lower(name)) + KeywordCount(summary_keywords, Lower(name))

\* total_score of a sheet name
total_score(name) ==
    KeywordCount(sga_keywords, Lower(name)) * SgaWeight
      + KeywordCount(summary_keywords, Lower(name))

\* the first element of a list after list.sort(key=score, reverse=True): the
\* sort is stable, so the earliest element of the highest score
FirstOfBest(n, better(_, _)) ==
    CHOOSE i \in 1..n : /\ \A j \in 1..n : ~better(j, i)
                        /\ \A j \in 1..(i - 1) : better(i, j)

\* _find_best_fuzzy_sheet(sheet_names, requested)
find_best_fuzzy_sheet(sheet_names, requested) ==
    LET n == Len(sheet_names)
        req == Lower(requested.name)
        bySimilarity == FirstOfBest(n, LAMBDA i, j :
                            RatioGreater(req, Lower(sheet_names[i]), Lower(sheet_names[j])))
        scored == SelectSeq(sheet_names, LAMBDA name : total_score(name) > 0)
        byKeywords == FirstOfBest(Len(scored), LAMBDA i, j :
                            total_score(scored[i]) > total_score(scored[j]))
    IN  IF /\ requested.given /\ requested.name # ""
           /\ RatioAboveThreshold(req, Lower(sheet_names[bySimilarity]))
        THEN sheet_names[bySimilarity]
        ELSE IF scored # <<>> THEN scored[byKeywords]
        ELSE sheet_names[1]

\* find_target_sheet_name falling back to the first sheet when the requested
\* name is missing and fuzzy matching is off
find_target_sheet_name_FirstSheet(sheet_names, requested_name, fuzzy_on) ==
    IF sheet_names = <<>> THEN [ok |-> FALSE, name |-> ""]
    ELSE IF requested_name.given
            /\ \E i \in 1..Len(sheet_names) : sheet_names[i] = requested_name.name
         THEN [ok |-> TRUE, name |-> requested_name.name]
    ELSE IF fuzzy_on
         THEN [ok |-> TRUE, name |-> find_best_fuzzy_sheet(sheet_names, requested_name)]
    ELSE [ok |-> TRUE, name |-> sheet_names[1]]

\* find_target_sheet_name(wb, requested, fuzzy): ok = FALSE stands for the
\* ValueError
find_target_sheet_name(sheet_names, requested, fuzzy) ==
    IF sheet_names = <<>> THEN [ok |-> FALSE, name |-> ""]
    ELSE IF ~requested.given
         THEN (IF fuzzy
               THEN [ok |-> TRUE, name |-> find_best_fuzzy_sheet(sheet_names, NoName)]
               ELSE [ok |-> TRUE, name |-> sheet_names[1]])
    ELSE IF \E i \in 1..Len(sheet_names) : sheet_names[i] = requested.name
         THEN [ok |-> TRUE, name |-> requested.name]
    ELSE IF fuzzy
         THEN [ok |-> TRUE, name |-> find_best_fuzzy_sheet(sheet_names, requested)]
    ELSE [ok |-> FALSE, name |-> ""]

(***************************************************************************)
(* Single-sheet split: split_workbook, export_fast, export_clone           *)
(***************************************************************************)

VARIABLES
    ws,               \* the target sheet of the input workbook, as stored on disk
    mode,             \* "fast" or "clone"
    caller,           \* "split_workbook", or "direct" for a direct call of the exporter
    sheet_name,       \* the sheet name handed to the exporter
    header_row,       \* 0-based index of the header row
    dp_col_idx,       \* 0-based index of the grouping column
    df,               \* the DataFrame read from the sheet
    groups,           \* the list of groups to export
    gi,               \* position in groups of the next group of the for-loop
    out_files,        \* the files of out_dir: name -> content
    manifest_entries, \* the manifest built so far
    log,              \* what became of every group handled so far
    failures,         \* failed loads and writes so far
    summary,          \* the summary split_workbook returns
    pc                \* "idle", "start", "export", "done"

\* a call of collect_groups
VARIABLES
    series,           \* df[dp_col_name], top to bottom
    flags,            \* skip_totals, case_insensitive, include_empty
    unique_groups,    \* the list collect_groups returns
    collected         \* collect_groups has returned

\* a call of find_target_sheet_name
VARIABLES
    sheetnames,       \* wb.sheetnames
    requested,        \* the requested sheet name, or NoName
    fuzzy,            \* fuzzy matching enabled
    target_sheet,     \* the outcome of find_target_sheet_name
    resolved          \* find_target_sheet_name has ended

\* calls of the two header locators on one worksheet
VARIABLES
    worksheet,        \* the worksheet, as its populated cells
    column_patterns,  \* the patterns handed to _detect_header_and_split_column
    detected,         \* the outcome of detect_header_and_column
    detected_split,   \* the outcome of _detect_header_and_split_column
    ran               \* the locators that have ended

\* a call of export_clone_multi_sheet or create_multi_sheet_files_per_group
VARIABLES
    multi_fn,         \* the function called
    workbook,         \* the sheets of the input workbook, in workbook order
    processed_sheets, \* the sheet_data of every analysed sheet
    remove_columns,   \* the removal patterns
    multi_groups,     \* the list of groups to export
    mgi,              \* position in multi_groups of the next group
    multi_files,      \* the files of out_dir: name -> content
    multi_manifest,   \* the manifest built so far
    multi_log,        \* what became of every group handled so far
    multi_failures,   \* failed loads and writes so far
    multi_summary,    \* the summary split_workbook_multi_sheet returns
    multi_pc,         \* "idle", "start", "export", "done", "raised"
    cli_exit          \* how the multi-sheet command ended: "", "success", "error"

\* calls of the column pruning helpers on one header row
VARIABLES
    prune_sheet,      \* the worksheet: its header row
    prune_patterns,   \* remove_patterns
    prune_preserve,   \* preserve_col_idx, 0-based
    prune_removed,    \* what _identify_columns_to_remove returns, as a set
    prune_kept,       \* the columns of what _remove_unwanted_columns returns
    prune_ran         \* the helpers that have returned

\* calls of the file name helpers
VARIABLES
    san_text,         \* the text handed to sanitize_filename
    san_result,       \* what sanitize_filename returned
    san_ran,          \* TRUE once sanitize_filename has returned
    uniq_base,        \* the name of base_path, the same in every call
    uniq_existing,    \* the names of the files in the output directory
    uniq_log,         \* the calls of generate_unique_filename and the removals so far
    uniq_looping      \* TRUE when a call is caught in its while-loop

\* a call of split_workbook, from its arguments to the collected groups
VARIABLES
    entry_file,       \* input_path: its name, whether it exists and loads, its sheets
    entry_args,       \* sheet_name, dp_header and fuzzy_sheet
    entry_out_dir,    \* out_dir: "absent", "exists" (before the call) or "created" (by it)
    entry_state       \* where the call stands, and what it has found

\* one group passing through the loop body of export_clone_multi_sheet
VARIABLES
    stage_call,       \* the sheet as loaded, header_row, original_split_col_idx, remove_columns, group
    stage_ws,         \* ws of the freshly loaded workbook, edited in place
    stage_local,      \* the locals of the loop body, the stage reached and the file saved
    stage_trace       \* the stages passed and the columns deleted, in order

\* one call of _copy_sheet_filtered_for_group
VARIABLES
    copy_ws,          \* original_ws
    copy_args,        \* group, sheet_data and remove_columns
    copy_new          \* new_ws and rows_added, once the call has returned

exportVars == <<ws, mode, caller, sheet_name, header_row, dp_col_idx, df, groups, gi,
                out_files, manifest_entries, log, failures, summary, pc>>

collectVars == <<series, flags, unique_groups, collected>>

sheetVars == <<sheetnames, requested, fuzzy, target_sheet, resolved>>

detectVars == <<worksheet, column_patterns, detected, detected_split, ran>>

multiVars == <<multi_fn, workbook, processed_sheets, remove_columns, multi_groups, mgi,
               multi_files, multi_manifest, multi_log, multi_failures, multi_summary,
               multi_pc, cli_exit>>

pruneVars == <<prune_sheet, prune_patterns, prune_preserve, prune_removed, prune_kept, prune_ran>>

nameVars == <<san_text, san_result, san_ran, uniq_base, uniq_existing, uniq_log, uniq_looping>>

entryVars == <<entry_file, entry_args, entry_out_dir, entry_state>>

stageVars == <<stage_call, stage_ws, stage_local, stage_trace>>

copyVars == <<copy_ws, copy_args, copy_new>>

utilVars == <<pruneVars, nameVars, entryVars, stageVars, copyVars>>

vars == <<exportVars, collectVars, sheetVars, detectVars, multiVars, utilVars>>

NoSummary == [groups_found |-> 0, files_created |-> 0, returned |-> FALSE]

EmptyFrame == [columns |-> <<>>, rows |-> <<>>]

NoTarget == [ok |-> FALSE, name |-> ""]

NoLocation == [found |-> FALSE, row |-> 0, col |-> 0]

\* the state of the variables of an operation that is not being run
ExportIdle ==
    /\ ws = <<>> /\ mode = "" /\ caller = "" /\ sheet_name = ""
    /\ header_row = 0 /\ dp_col_idx = 0 /\ df = EmptyFrame
    /\ groups = <<>> /\ gi = 1 /\ out_files = << >> /\ manifest_entries = <<>>
    /\ log = <<>> /\ failures = 0 /\ summary = NoSummary /\ pc = "idle"

CollectIdle ==
    /\ series = <<>> /\ unique_groups = <<>> /\ collected = FALSE
    /\ flags = [skip_totals |-> FALSE, case_insensitive |-> FALSE, include_empty |-> FALSE]

SheetIdle ==
    /\ sheetnames = <<>> /\ requested = NoName /\ fuzzy = FALSE
    /\ target_sheet = NoTarget /\ resolved = FALSE

DetectIdle ==
    /\ worksheet = [max_row |-> 1, max_col |-> 1, cells |-> << >>] /\ column_patterns = <<>>
    /\ detected = NoLocation /\ detected_split = NoLocation /\ ran = {}

PruneIdle ==
    /\ prune_sheet = <<>> /\ prune_patterns = <<>> /\ prune_preserve = 0
    /\ prune_removed = {} /\ prune_kept = <<>> /\ prune_ran = {}

NameIdle ==
    /\ san_text = "" /\ san_result = "" /\ san_ran = FALSE
    /\ uniq_base = "" /\ uniq_existing = {} /\ uniq_log = <<>> /\ uniq_looping = FALSE

NotCalled == [pc |-> "call", error |-> "", sheet |-> "", dp_column |-> "", groups |-> <<>>]

EntryIdle ==
    /\ entry_file = [name |-> "", exists |-> FALSE, valid |-> FALSE, sheets |-> <<>>]
    /\ entry_args = [sheet_name |-> NoName, dp_header |-> NoName, fuzzy_sheet |-> FALSE]
    /\ entry_out_dir = "absent"
    /\ entry_state = NotCalled

NoFilter == [top |-> 0, right |-> 0, bottom |-> 0]

NotStarted == [stage |-> "Planned", columns_to_remove |-> {}, deleted |-> <<>>,
               adjusted_split_col_idx |-> 0, rows_to_keep |-> {}, row_count |-> 0,
               auto_filter |-> NoFilter, saved |-> <<>>]

StageIdle ==
    /\ stage_call = [sheet |-> <<>>, header_row |-> 0, original_split_col_idx |-> 0,
                     remove_columns |-> <<>>, group |-> ""]
    /\ stage_ws = <<>> /\ stage_local = NotStarted /\ stage_trace = <<>>

NotCopied == [returned |-> FALSE, sheet |-> <<>>, rows_added |-> 0]

CopyIdle ==
    /\ copy_ws = <<>>
    /\ copy_args = [group |-> "", sheet_data |-> [ok |-> FALSE], remove_columns |-> <<>>]
    /\ copy_new = NotCopied

UtilIdle == PruneIdle /\ NameIdle /\ EntryIdle /\ StageIdle /\ CopyIdle

MultiIdle ==
    /\ multi_fn = "" /\ workbook = <<>> /\ processed_sheets = <<>>
    /\ remove_columns = <<>> /\ multi_groups = <<>> /\ mgi = 1
    /\ multi_files = << >> /\ multi_manifest = <<>> /\ multi_log = <<>>
    /\ multi_failures = 0 /\ multi_summary = NoSummary /\ multi_pc = "idle"
    /\ cli_exit = ""

\* bounds of the single-sheet runs
MaxDataRows == 3

MaxFailures == 1

\* group lists a direct caller of export_fast / export_clone may pass
DirectGroupLists ==
    LET labels == {"A", "Z"}
    IN  {<<>>} \cup {<<g>> : g \in labels} \cup {<<g, h>> : g \in labels, h \in labels}

\* the sheets of the input workbook
SheetNames == <<"SG&A Summary">>

\* the input sheets: banner rows, the header row, and an ID and a grouping
\* cell in every data row
SourceSheets ==
    LET \* what a cell of the grouping column may hold
        GroupCells == {None, Text("A"), Text(" A"), Num(1)}
        \* number of banner rows above the header
        BannerChoices == {0, 1}
        SourceSheet(banner, column) ==
            [i \in 1..banner |-> <<Text("Report"), None>>]
              \o << <<Text("ID"), Text("Department")>> >>
              \o [i \in 1..Len(column) |-> <<Num(i), column[i]>>]
    IN  {SourceSheet(b, column) :
            b \in BannerChoices, column \in UNION {[1..n -> GroupCells] : n \in 0..MaxDataRows}}

Init ==
    /\ ws \in SourceSheets
    /\ mode \in {"fast", "clone"}
    /\ caller = ""
    /\ sheet_name = ""
    /\ header_row = 0
    /\ dp_col_idx = 0
    /\ df = EmptyFrame
    /\ groups = <<>>
    /\ gi = 1
    /\ out_files = << >>
    /\ manifest_entries = <<>>
    /\ log = <<>>
    /\ failures = 0
    /\ summary = NoSummary
    /\ pc = "start"
    /\ CollectIdle /\ SheetIdle /\ DetectIdle /\ MultiIdle /\ UtilIdle

\* split_workbook up to the call of the exporter: the sheet is resolved, the
\* header located, the sheet read and the groups collected
SplitWorkbook ==
    /\ pc = "start"
    /\ LET located == detect_header_and_column(AsCells(ws))
           frame == read_sheet_as_dataframe(ws, located.row)
           dp_col_name == frame.columns[located.col + 1]
       IN  /\ located.found
           /\ header_row' = located.row
           /\ dp_col_idx' = located.col
           /\ df' = frame
           /\ \E skip_totals \in BOOLEAN, case_insensitive \in BOOLEAN,
                 include_empty \in BOOLEAN :
                groups' = collect_groups(ColumnValues(frame, dp_col_name),
                                         skip_totals, case_insensitive, include_empty)
    /\ \E fuzzy_sheet \in BOOLEAN :
         LET target == find_target_sheet_name(SheetNames, NoName, fuzzy_sheet)
         IN  target.ok /\ sheet_name' = target.name
    /\ caller' = "split_workbook"
    /\ pc' = "export"
    /\ UNCHANGED <<ws, mode, gi, out_files, manifest_entries, log, failures, summary>>
    /\ UNCHANGED <<collectVars, sheetVars, detectVars, multiVars, utilVars>>

\* export_fast or export_clone called directly with a group list of the
\* caller's choice
CallExporter ==
    /\ pc = "start"
    /\ LET located == detect_header_and_column(AsCells(ws))
       IN  /\ header_row' = located.row
           /\ dp_col_idx' = located.col
           /\ df' = read_sheet_as_dataframe(ws, located.row)
    /\ groups' \in DirectGroupLists
    /\ sheet_name' \in {"SG&A Summary", "Sheet1"}
    /\ caller' = "direct"
    /\ pc' = "export"
    /\ UNCHANGED <<ws, mode, gi, out_files, manifest_entries, log, failures, summary>>
    /\ UNCHANGED <<collectVars, sheetVars, detectVars, multiVars, utilVars>>

\* df[dp_col] == group on one value: pandas compares the stored value with
\* the str group, so only an identical str is equal
FastMatches(value, group) == value.k = "str" /\ value.s = group

\* group_df = df[df[dp_col] == group]
group_df(frame, col, group) ==
    SelectSeq(frame.rows, LAMBDA row : FastMatches(row[col + 1], group))

\* export_clone comparing the cell text with the group without trimming it
CloneMatches_NoStrip(value, group) == value.k # "none" /\ Str(value) = group

\* the condition of export_clone on the grouping cell of a row
CloneMatches(value, group) == value.k # "none" /\ Strip(Str(value)) = group

\* rows_to_keep of export_clone, without the rows up to the header
MatchingRows(sheet, hdr, col, group) ==
    {r \in (hdr + 2)..MaxRowOf(sheet) : CloneMatches(CellValue(sheet, r, col + 1), group)}

\* rows_to_delete of export_clone, in the order the code deletes them
rows_to_delete(sheet, hdr, col, group) ==
    Reverse(Ascending(((hdr + 2)..MaxRowOf(sheet)) \ MatchingRows(sheet, hdr, col, group)))

\* the workbook export_clone saves for a group: a fresh copy of the sheet
\* with the non-matching data rows deleted and the autofilter reapplied
CloneOutput(sheet, hdr, col, group) ==
    LET kept == DeleteRowsInOrder(sheet, rows_to_delete(sheet, hdr, col, group))
    IN  [sheet |-> kept,
         auto_filter |-> IF MaxRowOf(kept) > hdr + 1
                         THEN [top |-> hdr + 1, right |-> MaxColOf(kept), bottom |-> MaxRowOf(kept)]
                         ELSE [top |-> 0, right |-> 0, bottom |-> 0]]

\* export_fast writing the rows of group_df without the column names
FastOutput_NoHeader(frame, rows) ==
    [sheet |-> rows,
     auto_filter |-> [top |-> 1, right |-> Len(frame.columns), bottom |-> Len(rows) + 1]]

\* the workbook export_fast writes for a group: the column names, then the
\* rows of group_df, with an autofilter over the written range
FastOutput(frame, rows) ==
    [sheet |-> << [c \in 1..Len(frame.columns) |-> Text(frame.columns[c])] >> \o rows,
     auto_filter |-> [top |-> 1, right |-> Len(frame.columns), bottom |-> Len(rows) + 1]]

\* the base file name both exporters build for a group
BaseFilename(group) == sanitize_filename(group) \o " - SG&A Summary"

OutputPath(group) == generate_unique_filename(BaseFilename(group), ".xlsx", DOMAIN out_files)

Extend(f, key, value) == [k \in DOMAIN f \cup {key} |-> IF k = key THEN value ELSE f[k]]

InLoop(m) == pc = "export" /\ mode = m /\ gi \in 1..Len(groups)

Logged(group, outcome, path) == [group |-> group, outcome |-> outcome, path |-> path]

\* export_fast, one pass of the loop: group_df is empty
ExportFastSkip ==
    /\ InLoop("fast")
    /\ group_df(df, dp_col_idx, groups[gi]) = <<>>
    /\ log' = Append(log, Logged(groups[gi], "skipped", ""))
    /\ gi' = gi + 1
    /\ UNCHANGED <<ws, mode, caller, sheet_name, header_row, dp_col_idx, df, groups,
                   out_files, manifest_entries, failures, summary, pc>>
    /\ UNCHANGED <<collectVars, sheetVars, detectVars, multiVars, utilVars>>

\* export_fast, one pass of the loop: the file is written and the manifest
\* entry appended
ExportFastWrite ==
    /\ InLoop("fast")
    /\ LET group == groups[gi]
           rows == group_df(df, dp_col_idx, group)
           output_path == OutputPath(group)
       IN  /\ rows # <<>>
           /\ ~output_path.hang
           /\ out_files' = Extend(out_files, output_path.path, FastOutput(df, rows))
           /\ manifest_entries' = Append(manifest_entries,
                  [group |-> group, output_path |-> output_path.path,
                   row_count |-> Len(rows), mode |-> "fast"])
           /\ log' = Append(log, Logged(group, "written", output_path.path))
    /\ gi' = gi + 1
    /\ UNCHANGED <<ws, mode, caller, sheet_name, header_row, dp_col_idx, df, groups,
                   failures, summary, pc>>
    /\ UNCHANGED <<collectVars, sheetVars, detectVars, multiVars, utilVars>>

\* export_fast, one pass of the loop: writing raises, the except clause logs
\* the error and the loop continues
ExportFastFail ==
    /\ InLoop("fast")
    /\ failures < MaxFailures
    /\ group_df(df, dp_col_idx, groups[gi]) # <<>>
    /\ ~OutputPath(groups[gi]).hang
    /\ log' = Append(log, Logged(groups[gi], "failed", ""))
    /\ failures' = failures + 1
    /\ gi' = gi + 1
    /\ UNCHANGED <<ws, mode, caller, sheet_name, header_row, dp_col_idx, df, groups,
                   out_files, manifest_entries, summary, pc>>
    /\ UNCHANGED <<collectVars, sheetVars, detectVars, multiVars, utilVars>>

\* export_clone, one pass of the loop: load_workbook raises, or the sheet is
\* not in the workbook; the error is logged and the loop continues
ExportCloneLoadFail ==
    /\ InLoop("clone")
    /\ \/ failures < MaxFailures /\ failures' = failures + 1
       \/ sheet_name \notin {SheetNames[i] : i \in 1..Len(SheetNames)} /\ failures' = failures
    /\ log' = Append(log, Logged(groups[gi], "failed", ""))
    /\ gi' = gi + 1
    /\ UNCHANGED <<ws, mode, caller, sheet_name, header_row, dp_col_idx, df, groups,
                   out_files, manifest_entries, summary, pc>>
    /\ UNCHANGED <<collectVars, sheetVars, detectVars, multiVars, utilVars>>

CloneLoaded == sheet_name \in {SheetNames[i] : i \in 1..Len(SheetNames)}

\* export_clone leaving the loop at a group without rows instead of going on
ExportCloneSkip_Break ==
    /\ InLoop("clone")
    /\ CloneLoaded
    /\ Cardinality(MatchingRows(ws, header_row, dp_col_idx, groups[gi])) = 0
    /\ log' = Append(log, Logged(groups[gi], "skipped", ""))
    /\ gi' = Len(groups) + 1
    /\ UNCHANGED <<ws, mode, caller, sheet_name, header_row, dp_col_idx, df, groups,
                   out_files, manifest_entries, failures, summary, pc>>
    /\ UNCHANGED <<collectVars, sheetVars, detectVars, multiVars, utilVars>>

\* export_clone, one pass of the loop: no data row matches the group
ExportCloneSkip ==
    /\ InLoop("clone")
    /\ CloneLoaded
    /\ Cardinality(MatchingRows(ws, header_row, dp_col_idx, groups[gi])) = 0
    /\ log' = Append(log, Logged(groups[gi], "skipped", ""))
    /\ gi' = gi + 1
    /\ UNCHANGED <<ws, mode, caller, sheet_name, header_row, dp_col_idx, df, groups,
                   out_files, manifest_entries, failures, summary, pc>>
    /\ UNCHANGED <<collectVars, sheetVars, detectVars, multiVars, utilVars>>

\* export_clone, one pass of the loop: the filtered copy is saved and the
\* manifest entry appended
ExportCloneWrite ==
    /\ InLoop("clone")
    /\ CloneLoaded
    /\ LET group == groups[gi]
           row_count == Cardinality(MatchingRows(ws, header_row, dp_col_idx, group))
           output_path == OutputPath(group)
       IN  /\ row_count # 0
           /\ ~output_path.hang
           /\ out_files' = Extend(out_files, output_path.path,
                                  CloneOutput(ws, header_row, dp_col_idx, group))
           /\ manifest_entries' = Append(manifest_entries,
                  [group |-> group, output_path |-> output_path.path,
                   row_count |-> row_count, mode |-> "clone"])
           /\ log' = Append(log, Logged(group, "written", output_path.path))
    /\ gi' = gi + 1
    /\ UNCHANGED <<ws, mode, caller, sheet_name, header_row, dp_col_idx, df, groups,
                   failures, summary, pc>>
    /\ UNCHANGED <<collectVars, sheetVars, detectVars, multiVars, utilVars>>

\* export_clone appending the manifest entry although wb.save raised
ExportCloneSaveFail_RecordsEntry ==
    /\ InLoop("clone")
    /\ CloneLoaded
    /\ failures < MaxFailures
    /\ Cardinality(MatchingRows(ws, header_row, dp_col_idx, groups[gi])) # 0
    /\ ~OutputPath(groups[gi]).hang
    /\ manifest_entries' = Append(manifest_entries,
           [group |-> groups[gi], output_path |-> OutputPath(groups[gi]).path,
            row_count |-> Cardinality(MatchingRows(ws, header_row, dp_col_idx, groups[gi])),
            mode |-> "clone"])
    /\ log' = Append(log, Logged(groups[gi], "failed", ""))
    /\ failures' = failures + 1
    /\ gi' = gi + 1
    /\ UNCHANGED <<ws, mode, caller, sheet_name, header_row, dp_col_idx, df, groups,
                   out_files, summary, pc>>
    /\ UNCHANGED <<collectVars, sheetVars, detectVars, multiVars, utilVars>>

\* export_clone, one pass of the loop: wb.save raises, the except clause
\* logs the error and the loop continues
ExportCloneSaveFail ==
    /\ InLoop("clone")
    /\ CloneLoaded
    /\ failures < MaxFailures
    /\ Cardinality(MatchingRows(ws, header_row, dp_col_idx, groups[gi])) # 0
    /\ ~OutputPath(groups[gi]).hang
    /\ log' = Append(log, Logged(groups[gi], "failed", ""))
    /\ failures' = failures + 1
    /\ gi' = gi + 1
    /\ UNCHANGED <<ws, mode, caller, sheet_name, header_row, dp_col_idx, df, groups,
                   out_files, manifest_entries, summary, pc>>
    /\ UNCHANGED <<collectVars, sheetVars, detectVars, multiVars, utilVars>>

\* the summary split_workbook builds from the exporter's return value
RunSummary(found, entries) ==
    [groups_found |-> Len(found), files_created |-> Len(entries), returned |-> TRUE]

\* the loop is over: the exporter returns the manifest and split_workbook
\* its summary
Finish ==
    /\ pc = "export"
    /\ gi > Len(groups)
    /\ summary' = IF caller = "split_workbook"
                  THEN RunSummary(groups, manifest_entries) ELSE summary
    /\ pc' = "done"
    /\ UNCHANGED <<ws, mode, caller, sheet_name, header_row, dp_col_idx, df, groups, gi,
                   out_files, manifest_entries, log, failures>>
    /\ UNCHANGED <<collectVars, sheetVars, detectVars, multiVars, utilVars>>

Next ==
    \/ SplitWorkbook
    \/ CallExporter
    \/ ExportFastSkip
    \/ ExportFastWrite
    \/ ExportFastFail
    \/ ExportCloneLoadFail
    \/ ExportCloneSkip
    \/ ExportCloneWrite
    \/ ExportCloneSaveFail
    \/ Finish

Spec == Init /\ [][Next]_vars

(***************************************************************************)
(* Claims about the single-sheet split                                     *)
(***************************************************************************)

\* C1: every file export_clone has written for a group G, whatever was
\* exported before it, holds the rows up to and including the header
\* unchanged, followed by exactly the data rows whose grouping cell is not
\* null and equals G after trimming, in source order.
C1_CloneOutputIsFilteredSource ==
    \A i \in 1..Len(manifest_entries) :
        manifest_entries[i].mode = "clone" =>
            LET G == manifest_entries[i].group
                written == out_files[manifest_entries[i].output_path].sheet
                data == SubSeq(ws, header_row + 2, Len(ws))
            IN  /\ written = SubSeq(ws, 1, header_row + 1)
                               \o SelectSeq(data, LAMBDA row :
                                      /\ row[dp_col_idx + 1] # None
                                      /\ Strip(Str(row[dp_col_idx + 1])) = G)
                /\ manifest_entries[i].row_count = Len(written) - (header_row + 1)

\* C1 witness: a second group exported by export_clone from a sheet with a
\* banner row, a null cell and a padded cell, the padded row being kept.
C1_Witness ==
    /\ mode = "clone"
    /\ header_row = 1
    /\ Len(manifest_entries) = 2
    /\ manifest_entries[2].group = "A"
    /\ \E r \in 1..Len(ws) : ws[r][2] = None
    /\ \E r \in 1..Len(out_files[manifest_entries[2].output_path].sheet) :
          out_files[manifest_entries[2].output_path].sheet[r][2] = Text(" A")

\* C2: for every group returned by collect_groups, export_fast and
\* export_clone find the same number of rows on the same sheet, so both skip
\* the group or both report the same row_count.
C2_FastAndCloneAgree ==
    (pc # "start" /\ caller = "split_workbook") =>
        \A i \in 1..Len(groups) :
            Len(group_df(df, dp_col_idx, groups[i]))
              = Cardinality(MatchingRows(ws, header_row, dp_col_idx, groups[i]))

\* C3: a group without matching data rows gets no output file and no
\* manifest entry, and the loop goes on: every group of the list is handled,
\* in order, and the run ends normally.
C3_EmptyGroupIsSkipped ==
    LET zero(g) == IF mode = "fast"
                   THEN \A r \in 1..Len(df.rows) :
                           ~(df.rows[r][dp_col_idx + 1].k = "str"
                             /\ df.rows[r][dp_col_idx + 1].s = g)
                   ELSE \A r \in (header_row + 2)..Len(ws) :
                           \/ ws[r][dp_col_idx + 1] = None
                           \/ Strip(Str(ws[r][dp_col_idx + 1])) # g
    IN  /\ Len(log) <= Len(groups)
        /\ \A i \in 1..Len(log) :
              /\ log[i].group = groups[i]
              /\ zero(groups[i]) =>
                    /\ log[i].outcome # "written"
                    /\ \A k \in 1..Len(manifest_entries) :
                          manifest_entries[k].group # groups[i]
        /\ Cardinality(DOMAIN out_files)
             = Cardinality({i \in 1..Len(log) : log[i].outcome = "written"})
        /\ pc = "export" => gi = Len(log) + 1
        /\ pc = "done" => Len(log) = Len(groups)

\* C3 witness: a finished run in which a group was skipped for having no
\* rows and a later group was written.
C3_Witness ==
    /\ pc = "done"
    /\ \E i \in 1..Len(log), j \in 1..Len(log) :
          /\ i < j
          /\ log[i].outcome = "skipped"
          /\ log[j].outcome = "written"

\* C4: after a run the manifest holds one entry per written file and none
\* for a skipped or failed group; files_created is the number of entries and
\* does not exceed groups_found.
C4_ManifestMatchesFiles ==
    pc = "done" =>
        LET written == {i \in 1..Len(log) : log[i].outcome = "written"}
            paths == {manifest_entries[k].output_path : k \in 1..Len(manifest_entries)}
        IN  /\ Len(manifest_entries) = Cardinality(written)
            /\ Cardinality(paths) = Len(manifest_entries)
            /\ paths = DOMAIN out_files
            /\ \A k \in 1..Len(manifest_entries) :
                  \E i \in written :
                     /\ log[i].group = manifest_entries[k].group
                     /\ log[i].path = manifest_entries[k].output_path
            /\ caller = "split_workbook" =>
                  /\ \A i \in (1..Len(log)) \ written :
                        \A k \in 1..Len(manifest_entries) :
                           manifest_entries[k].group # log[i].group
                  /\ summary.returned
                  /\ summary.files_created = Len(manifest_entries)
                  /\ summary.files_created <= summary.groups_found

\* C4 witness: split_workbook has returned; one group was written and
\* another was not.
C4_Witness ==
    /\ pc = "done"
    /\ caller = "split_workbook"
    /\ summary.files_created = 1
    /\ summary.groups_found = 2

MaxValues == 3

\* a column of cells and the three flags of collect_groups
InitCollect ==
    /\ series \in UNION {[1..n -> {None, Text("Sales"), Text("SALES"), Text(" Sales "),
                                   Text(" "), Text("Total"), Text("Pre-total"), Num(1)}] :
                             n \in 0..MaxValues}
    /\ flags \in [skip_totals : BOOLEAN, case_insensitive : BOOLEAN, include_empty : BOOLEAN]
    /\ unique_groups = <<>>
    /\ collected = FALSE
    /\ ExportIdle /\ SheetIdle /\ DetectIdle /\ MultiIdle /\ UtilIdle

CollectGroups ==
    /\ ~collected
    /\ unique_groups' = collect_groups(series, flags.skip_totals, flags.case_insensitive,
                                       flags.include_empty)
    /\ collected' = TRUE
    /\ UNCHANGED <<series, flags>>
    /\ UNCHANGED <<exportVars, sheetVars, detectVars, multiVars, utilVars>>

NextCollect == CollectGroups

SpecCollect == InitCollect /\ [][NextCollect]_vars

\* C10: the list collect_groups returns is sorted by code point and no two
\* of its entries share a comparison key (the entry, lower-cased when
\* case_insensitive is set); every entry is the trimmed text of the first
\* value of the column that has its key; a blank value (null, empty or
\* white space) contributes nothing unless include_empty is set, and then
\* the empty string appears exactly once; every other value that is not
\* dropped as a total has its key in the list.
C10_CollectGroupsSortedFirstSeen ==
    collected =>
        LET n == Len(unique_groups)
            key(t) == IF flags.case_insensitive THEN Lower(t) ELSE t
            trimmed(i) == IF series[i].k = "none" THEN "" ELSE Strip(Str(series[i]))
            blank(i) == trimmed(i) = ""
            total(i) == flags.skip_totals /\ is_total_row(trimmed(i))
        IN  /\ \A i \in 1..n, j \in 1..n :
                  i < j => /\ StrLess(unique_groups[i], unique_groups[j])
                           /\ key(unique_groups[i]) # key(unique_groups[j])
            /\ \A i \in 1..n :
                  \E v \in 1..Len(series) :
                     /\ trimmed(v) = unique_groups[i]
                     /\ \A u \in 1..(v - 1) : key(trimmed(u)) # key(unique_groups[i])
            /\ \A v \in 1..Len(series) :
                  IF blank(v)
                  THEN (\E i \in 1..n : unique_groups[i] = "") <=> flags.include_empty
                  ELSE total(v) \/ \E i \in 1..n : key(unique_groups[i]) = key(trimmed(v))
            /\ Cardinality({i \in 1..n : unique_groups[i] = ""}) <= 1

\* C10 witness: with case_insensitive set, "Sales" above "SALES" leaves only
\* "Sales", next to the empty string of a blank value.
C10_Witness ==
    /\ collected
    /\ flags.case_insensitive /\ flags.include_empty
    /\ series = <<Text("Sales"), Text(" "), Text("SALES")>>
    /\ unique_groups = <<"", "Sales">>

(***************************************************************************)
(* collect_groups called on a column of totals                             *)
(***************************************************************************)

\* a column of total-like values and the three flags of collect_groups
InitTotals ==
    /\ series \in UNION {[1..n -> {Text("Total"), Text("Grand Total"), Text("grand TOTAL "),
                                   Text("Totally Different Dept"), Text("Pre-total"),
                                   Text("Sub_total")}] :
                             n \in 0..MaxValues}
    /\ flags \in [skip_totals : BOOLEAN, case_insensitive : BOOLEAN, include_empty : BOOLEAN]
    /\ unique_groups = <<>>
    /\ collected = FALSE
    /\ ExportIdle /\ SheetIdle /\ DetectIdle /\ MultiIdle /\ UtilIdle

SpecTotals == InitTotals /\ [][NextCollect]_vars

\* the words of a text: its maximal runs of letters, digits and underscores
C11_Words(text) ==
    LET letter == [k \in 1..Len(text) |-> IsWordChar(CharAt(text, k))]
        starts == {i \in 1..Len(text) : letter[i] /\ (i = 1 \/ ~letter[i - 1])}
        ends   == {j \in 1..Len(text) : letter[j] /\ (j = Len(text) \/ ~letter[j + 1])}
    IN  {SubSeq(text, i, Least({j \in ends : j >= i})) : i \in starts}

\* C11: with skip_totals set, collect_groups drops exactly the values that
\* have "total" among their words, whatever the case ("Total", "Grand
\* Total"), and keeps the values where "total" is part of a longer word
\* ("Totally Different Dept"); with skip_totals unset no value is dropped
\* for this reason.
C11_SkipTotalsDropsWholeWord ==
    collected =>
        LET n == Len(unique_groups)
            key(t) == IF flags.case_insensitive THEN Lower(t) ELSE t
            trimmed(i) == IF series[i].k = "none" THEN "" ELSE Strip(Str(series[i]))
            total(t) == "total" \in C11_Words(Lower(t))
        IN  /\ flags.skip_totals => \A i \in 1..n : ~total(unique_groups[i])
            /\ \A v \in 1..Len(series) :
                  (trimmed(v) # "" /\ ~(flags.skip_totals /\ total(trimmed(v))))
                      => \E i \in 1..n : key(unique_groups[i]) = key(trimmed(v))

\* C11 witness: with skip_totals set, "Grand Total" is dropped and "Totally
\* Different Dept" is kept.
C11_Witness ==
    /\ collected
    /\ flags.skip_totals
    /\ series = <<Text("Grand Total"), Text("Totally Different Dept")>>
    /\ unique_groups = <<"Totally Different Dept">>

(***************************************************************************)
(* find_target_sheet_name called on a workbook                             *)
(***************************************************************************)

\* the largest number of sheets of a workbook
MaxSheets == 2

\* wb.sheetnames of the workbooks: sheet names are unique within a workbook
SheetNameLists ==
    LET SheetNamePool == {"Data Sheet 1", "SGA", "SG&A Summary", "Totals", "Sum"}
    IN  {names \in UNION {[1..n -> SheetNamePool] : n \in 0..MaxSheets} :
            \A i \in 1..Len(names), j \in 1..Len(names) : i # j => names[i] # names[j]}

InitSheet ==
    /\ sheetnames \in SheetNameLists
    /\ requested \in {NoName, Named(""), Named("Data"), Named("SGA"), Named("SGA Summary"),
                       Named("Missing")}
    /\ fuzzy \in BOOLEAN
    /\ target_sheet = NoTarget
    /\ resolved = FALSE
    /\ ExportIdle /\ CollectIdle /\ DetectIdle /\ MultiIdle /\ UtilIdle

FindTargetSheetName ==
    /\ ~resolved
    /\ target_sheet' = find_target_sheet_name(sheetnames, requested, fuzzy)
    /\ resolved' = TRUE
    /\ UNCHANGED <<sheetnames, requested, fuzzy>>
    /\ UNCHANGED <<exportVars, collectVars, detectVars, multiVars, utilVars>>

NextSheet == FindTargetSheetName

SpecSheet == InitSheet /\ [][NextSheet]_vars

C9_KeywordChoice(names) ==
    LET score(i) == 2 * KeywordCount(sga_keywords, Lower(names[i]))
                      + KeywordCount(summary_keywords, Lower(names[i]))
        best == CHOOSE i \in 1..Len(names) :
                   /\ \A j \in 1..Len(names) : score(j) <= score(i)
                   /\ \A j \in 1..(i - 1) : score(j) < score(i)
    IN  IF score(best) > 0 THEN names[best] ELSE names[1]

\* the earliest sheet of the highest similarity to the requested name
C9_SimilarityChoice(names, wanted) ==
    LET matched(i) == MatchedChars(Lower(wanted), Lower(names[i]))
        total(i) == Len(wanted) + Len(names[i])
        \* ratio(i) > ratio(j), with ratio = 2 * matched / total
        above(i, j) == matched(i) * total(j) > matched(j) * total(i)
    IN  CHOOSE i \in 1..Len(names) :
           /\ \A j \in 1..Len(names) : ~above(j, i)
           /\ \A j \in 1..(i - 1) : above(i, j)

\* C9 as stated: with fuzzy matching on and no exact match, the sheet
\* returned is the earliest one of the highest score, the score being the
\* similarity to the requested name when a (non-empty) name was given and
\* the keyword score otherwise.
C9_FuzzyPicksHighestScore ==
    (/\ resolved /\ fuzzy /\ sheetnames # <<>>
     /\ ~(requested.given /\ \E i \in 1..Len(sheetnames) : sheetnames[i] = requested.name))
    => /\ target_sheet.ok
       /\ target_sheet.name =
             IF requested.given /\ requested.name # ""
             THEN sheetnames[C9_SimilarityChoice(sheetnames, requested.name)]
             ELSE C9_KeywordChoice(sheetnames)

\* C9 as amended: the similarity to the requested name decides only when
\* the name is not empty and the highest similarity is above 0.6; in every
\* other case the keyword score decides.
C9_FuzzyPicksSimilarAboveThreshold ==
    (/\ resolved /\ fuzzy /\ sheetnames # <<>>
     /\ ~(requested.given /\ \E i \in 1..Len(sheetnames) : sheetnames[i] = requested.name))
    => /\ target_sheet.ok
       /\ LET wanted == requested.name
              top == C9_SimilarityChoice(sheetnames, wanted)
              similar == /\ requested.given /\ wanted # ""
                         /\ 2 * MatchedChars(Lower(wanted), Lower(sheetnames[top])) * 10
                              > 6 * (Len(wanted) + Len(sheetnames[top]))
          IN  target_sheet.name = IF similar THEN sheetnames[top]
                                  ELSE C9_KeywordChoice(sheetnames)

\* C9 witness: "Data" is requested of a workbook with the sheets
\* "Data Sheet 1" and "SGA"; the most similar sheet is at 0.5 only, and the
\* keyword score has picked "SGA".
C9_Witness ==
    /\ resolved /\ fuzzy
    /\ requested = Named("Data")
    /\ sheetnames = <<"Data Sheet 1", "SGA">>
    /\ target_sheet = [ok |-> TRUE, name |-> "SGA"]

(***************************************************************************)
(* The header locators called on a worksheet                               *)
(***************************************************************************)

\* the largest number of populated cells of a scattered worksheet
MaxCells == 2

\* the largest number of cells of a header row
MaxHeaderCols == 3

\* a worksheet given by its populated cells: max_row and max_column are
\* those of the populated cells, 1 for a sheet without cells
MakeSheet(cells) ==
    LET top(S) == CHOOSE a \in S : \A b \in S : a >= b
    IN  [max_row |-> top({1} \cup {p[1] : p \in DOMAIN cells}),
         max_col |-> top({1} \cup {p[2] : p \in DOMAIN cells}),
         cells   |-> cells]

\* cells scattered over the corners of the scanned window and just outside it
ScatteredSheets ==
    LET positions == {1, ScanRows, ScanRows + 1} \X {1, ScanCols, ScanCols + 1}
        texts == {Text("Department"), Text("Dept / Project"), Text("Name")}
    IN  UNION {{MakeSheet(f) : f \in [P -> texts]} :
                  P \in {Q \in SUBSET positions : Cardinality(Q) <= MaxCells}}

\* one header row, in the first or the second row of the sheet; a column of
\* the row may be empty
HeaderRowSheets ==
    LET HeaderTexts == {"ID", "Department", "Department Name", "Project Manager",
                        "Budget Department", "Project"}
        choices == {None} \cup {Text(t) : t \in HeaderTexts}
        sheet(r, row) == MakeSheet([p \in {<<r, c>> : c \in {d \in 1..Len(row) : row[d] # None}}
                                       |-> row[p[2]]])
    IN  {sheet(r, row) : r \in {1, 2}, row \in [1..MaxHeaderCols -> choices]}

\* one header row that abbreviates the department in a second column
AbbreviatedSheets ==
    {MakeSheet([p \in {<<1, c>> : c \in 1..Len(row)} |-> Text(row[p[2]])]) :
        row \in [1..MaxHeaderCols -> {"ID", "Department", "Dept Code"}]}

\* the column patterns split_workbook_multi_sheet configures
ColumnPatterns == {<<"project", "proj">>, <<"department", "dept">>}

InitDetect ==
    /\ worksheet \in ScatteredSheets \cup HeaderRowSheets \cup AbbreviatedSheets
    /\ column_patterns \in ColumnPatterns
    /\ detected = NoLocation
    /\ detected_split = NoLocation
    /\ ran = {}
    /\ ExportIdle /\ CollectIdle /\ SheetIdle /\ MultiIdle /\ UtilIdle

DetectHeaderAndColumn ==
    /\ "detect_header_and_column" \notin ran
    /\ detected' = detect_header_and_column(worksheet)
    /\ ran' = ran \cup {"detect_header_and_column"}
    /\ UNCHANGED <<worksheet, column_patterns, detected_split>>
    /\ UNCHANGED <<exportVars, collectVars, sheetVars, multiVars, utilVars>>

DetectHeaderAndSplitColumn ==
    /\ "_detect_header_and_split_column" \notin ran
    /\ detected_split' = detect_header_and_split_column(worksheet, column_patterns)
    /\ ran' = ran \cup {"_detect_header_and_split_column"}
    /\ UNCHANGED <<worksheet, column_patterns, detected>>
    /\ UNCHANGED <<exportVars, collectVars, sheetVars, multiVars, utilVars>>

NextDetect ==
    \/ DetectHeaderAndColumn
    \/ DetectHeaderAndSplitColumn

SpecDetect == InitDetect /\ [][NextDetect]_vars

\* the text of the cell a locator returned
C6_SelectedText(location) ==
    CellText(ValueAt(worksheet, location.row + 1, location.col + 1))

\* the whole normalized text is a grouping pattern: one of the
\* department/project forms, or one of the column patterns handed in
C6_WholeTextMatches(text, patterns) ==
    LET normalized == CollapseSpaces(Lower(Strip(text)))
    IN  \/ normalized \in {"department", "project", "dept"}
        \/ \E a \in {"department", "dept"}, sep \in {"", "/", "-"},
              l \in {"", " "}, r \in {"", " "} :
              \/ normalized = a \o l \o sep \o r \o "project"
              \/ normalized = "project" \o l \o sep \o r \o a
        \/ \E i \in 1..Len(patterns) : normalized = Lower(patterns[i])

\* C6: a cell is selected as the grouping column only when its whole
\* normalized text matches a grouping pattern, by detect_header_and_column
\* and by _detect_header_and_split_column alike; "Department Name",
\* "Project Manager" and "Budget Department" are never selected.
C6_HeaderMatchIsAnchored ==
    /\ ("detect_header_and_column" \in ran /\ detected.found)
          => C6_WholeTextMatches(C6_SelectedText(detected), <<>>)
    /\ ("_detect_header_and_split_column" \in ran /\ detected_split.found)
          => C6_WholeTextMatches(C6_SelectedText(detected_split), column_patterns)

\* C7: detect_header_and_column finds a location exactly when a cell of rows
\* 1..min(50, max_row) and columns 1..min(20, max_column) matches, and the
\* location is then the first matching cell in row-major order.
C7_FirstMatchInWindow ==
    "detect_header_and_column" \in ran =>
        LET matching == {p \in DOMAIN worksheet.cells :
                            /\ p[1] <= 50 /\ p[1] <= worksheet.max_row
                            /\ p[2] <= 20 /\ p[2] <= worksheet.max_col
                            /\ candidate_name_matches(CellText(worksheet.cells[p]))}
            at == <<detected.row + 1, detected.col + 1>>
        IN  /\ detected.found <=> matching # {}
            /\ detected.found =>
                  /\ at \in matching
                  /\ \A p \in matching :
                        at[1] < p[1] \/ (at[1] = p[1] /\ at[2] <= p[2])

\* C7 witness: a matching cell in row 1 lies outside the scanned columns and
\* the match of row 50, column 20 is the one returned.
C7_Witness ==
    /\ "detect_header_and_column" \in ran
    /\ DOMAIN worksheet.cells = {<<1, 21>>, <<50, 20>>}
    /\ worksheet.cells[<<1, 21>>] = Text("Department")
    /\ detected = [found |-> TRUE, row |-> 49, col |-> 19]

\* C7 witness of the failure: the only matching cell lies below the scanned
\* rows and no location is returned.
C7_WitnessNotFound ==
    /\ "detect_header_and_column" \in ran
    /\ DOMAIN worksheet.cells = {<<51, 1>>}
    /\ worksheet.cells[<<51, 1>>] = Text("Department")
    /\ ~detected.found

\* C26: within the header row _detect_header_and_split_column settles on, a
\* header exactly equal to one of the column patterns is chosen over a
\* header that only starts with, ends with or contains a pattern: when the
\* row holds an exact header, the column returned is one.
C26_ExactHeaderPreferred ==
    LET r == detected_split.row + 1
        in_row == {p \in ScanWindow(worksheet, ScanRows, ScanCols) :
                      p[1] = r /\ CellText(worksheet.cells[p]) # ""}
        exact(text) == \E i \in 1..Len(column_patterns) :
                          Lower(text) = Lower(column_patterns[i])
    IN  ("_detect_header_and_split_column" \in ran /\ detected_split.found
           /\ Cardinality(in_row) >= 3
           /\ \E p \in in_row : exact(CellText(worksheet.cells[p])))
          => exact(C6_SelectedText(detected_split))

(***************************************************************************)
(* Multi-sheet export: export_clone_multi_sheet,                           *)
(* split_workbook_multi_sheet and create_multi_sheet_files_per_group       *)
(***************************************************************************)

\* the test of _identify_columns_to_remove and _remove_unwanted_columns on a
\* lower-cased, trimmed header
ShouldRemove(header_value, remove_patterns) ==
    \E i \in 1..Len(remove_patterns) :
        \/ Contains(header_value, Lower(remove_patterns[i]))
        \/ StartsWith(header_value, "unnamed")
        \/ Contains(header_value, "project/department")
        \/ Contains(header_value, "department/project")

\* _identify_columns_to_remove without the test of preserve_col_idx
identify_columns_to_remove_NoPreserve(sheet, hdr, remove_patterns, preserve_col_idx) ==
    {col_idx \in 0..(MaxColOf(sheet) - 1) :
        ShouldRemove(Lower(CellText(CellValue(sheet, hdr + 1, col_idx + 1))), remove_patterns)}

\* _identify_columns_to_remove(ws, header_row, remove_patterns, preserve_col_idx):
\* the 0-based indices, as a set
identify_columns_to_remove(sheet, hdr, remove_patterns, preserve_col_idx) ==
    {col_idx \in 0..(MaxColOf(sheet) - 1) :
        /\ col_idx # preserve_col_idx
        /\ ShouldRemove(Lower(CellText(CellValue(sheet, hdr + 1, col_idx + 1))),
                        remove_patterns)}

\* _remove_unwanted_columns(df, remove_patterns, preserve_column)
remove_unwanted_columns(frame, remove_patterns, preserve_column) ==
    LET keep == {c \in 1..Len(frame.columns) :
                    \/ remove_patterns = <<>>
                    \/ (preserve_column # "" /\ frame.columns[c] = preserve_column)
                    \/ ~ShouldRemove(Strip(Lower(frame.columns[c])), remove_patterns)}
        order == Ascending(keep)
    IN  [columns |-> [i \in 1..Len(order) |-> frame.columns[order[i]]],
         rows    |-> [r \in 1..Len(frame.rows) |->
                        [i \in 1..Len(order) |-> frame.rows[r][order[i]]]]]

\* ws.delete_cols(idx)
delete_cols(sheet, idx) ==
    [r \in 1..Len(sheet) |->
        IF idx \in 1..Len(sheet[r])
        THEN SubSeq(sheet[r], 1, idx - 1) \o SubSeq(sheet[r], idx + 1, Len(sheet[r]))
        ELSE sheet[r]]

RECURSIVE DeleteColsInOrder(_, _)
\* for col_idx in order: ws.delete_cols(col_idx + 1)
DeleteColsInOrder(sheet, order) ==
    IF order = <<>> THEN sheet
    ELSE DeleteColsInOrder(delete_cols(sheet, Head(order) + 1), Tail(order))

\* export_clone_multi_sheet keeping the index of the unpruned sheet
adjusted_split_col_idx_Unadjusted(columns_to_remove, original_split_col_idx) ==
    original_split_col_idx

\* adjusted_split_col_idx of export_clone_multi_sheet: one less for every
\* removed column before the split column
adjusted_split_col_idx(columns_to_remove, original_split_col_idx) ==
    original_split_col_idx
        - Cardinality({col_idx \in columns_to_remove : col_idx < original_split_col_idx})

\* export_clone_multi_sheet up to the row count of a group: the sheet with
\* the pruned columns deleted, the adjusted split index and the data rows
\* that match the group
PrunedForGroup(sheet, hdr, original_split_col_idx, remove_patterns, group) ==
    LET columns_to_remove ==
            identify_columns_to_remove(sheet, hdr, remove_patterns, original_split_col_idx)
        adjusted == adjusted_split_col_idx(columns_to_remove, original_split_col_idx)
        pruned == DeleteColsInOrder(sheet, Reverse(Ascending(columns_to_remove)))
    IN  [sheet |-> pruned,
         split_col_idx |-> adjusted,
         rows_to_keep |-> MatchingRows(pruned, hdr, adjusted, group)]

\* the workbook export_clone_multi_sheet saves for a group
CloneMultiOutput(sheet, hdr, original_split_col_idx, remove_patterns, group) ==
    LET pruned == PrunedForGroup(sheet, hdr, original_split_col_idx, remove_patterns, group)
    IN  CloneOutput(pruned.sheet, hdr, pruned.split_col_idx, group)

\* _analyze_sheet_for_multi_processing: ok = FALSE stands for an exception
analyze_sheet(entry, patterns, remove_patterns, opts) ==
    LET result(at, split_col_name, df_cleaned) ==
            [ok |-> TRUE,
             sheet_name |-> entry.name,
             header_row |-> at.row,
             split_col_idx |-> at.col,
             split_col_name |-> split_col_name,
             groups |-> collect_groups(ColumnValues(df_cleaned, split_col_name),
                                       opts.skip_totals, opts.case_insensitive,
                                       opts.include_empty),
             df |-> df_cleaned]
        cleaned(at, frame) ==
            IF ~at.found \/ at.col + 1 > Len(frame.columns)
            THEN [ok |-> FALSE]
            ELSE result(at, frame.columns[at.col + 1],
                        remove_unwanted_columns(frame, remove_patterns,
                                                frame.columns[at.col + 1]))
        located(at) == cleaned(at, read_sheet_as_dataframe(entry.sheet, at.row))
    IN  located(detect_header_and_split_column(AsCells(entry.sheet), patterns))

\* _copy_sheet_filtered_for_group(original_ws, new_ws, group, sheet_data,
\* remove_columns): the sheet written and the number of data rows added
copy_sheet_filtered_for_group(original_ws, group, sheet_data, remove_patterns) ==
    LET columns_to_remove ==
            identify_columns_to_remove(original_ws, sheet_data.header_row, remove_patterns,
                                       sheet_data.split_col_idx)
        frame == sheet_data.df
        split_col == CHOOSE c \in 1..Len(frame.columns) :
                        frame.columns[c] = sheet_data.split_col_name
        rows == SelectSeq(frame.rows, LAMBDA row : FastMatches(row[split_col], group))
        kept == Ascending({c \in 1..MaxColOf(original_ws) : (c - 1) \notin columns_to_remove})
        original_header(c) == CellText(CellValue(original_ws, sheet_data.header_row + 1, c))
        named(c) == {i \in 1..Len(frame.columns) : Strip(frame.columns[i]) = original_header(c)}
        \* 1-based position in the DataFrame of output column o, 0 for none
        df_col(o) == IF named(kept[o]) # {} THEN Least(named(kept[o]))
                     ELSE IF o <= Len(frame.columns) THEN o ELSE 0
        structure == [r \in 1..(sheet_data.header_row + 1) |->
                         [o \in 1..Len(kept) |-> CellValue(original_ws, r, kept[o])]]
        data == [r \in 1..Len(rows) |->
                    [o \in 1..Len(kept) |->
                        IF df_col(o) # 0 THEN rows[r][df_col(o)] ELSE Text("")]]
    IN  [sheet |-> structure \o data, rows_added |-> Len(rows)]

\* the longest grouping column of a sheet of the multi-sheet workbook
MaxMultiRows == 2

\* the workbooks: sheet 1 grouped by project, sheets 2 and 3 by department;
\* every sheet has a compound first column, an ID column and the grouping
\* column; the third sheet may hold a department typed with a leading space
\* or with a full stop at its end
MultiWorkbooks ==
    LET MultiColumns == UNION {[1..n -> {None, Text("A"), Text("B")}] : n \in 0..MaxMultiRows}
        \* the grouping columns of the first sheet: one project throughout
        ProjectColumns == {c \in MultiColumns : \A i \in 1..Len(c) : c[i] = Text("A")}
        MultiSheet(title, column) ==
            << <<Text("Project/Department"), Text("ID"), Text(title)>> >>
              \o [i \in 1..Len(column) |-> <<Text("x"), Num(i), column[i]>>]
    IN  {<< [name |-> "Projects",    sheet |-> MultiSheet("Project", c1)],
            [name |-> "Departments", sheet |-> MultiSheet("Department", c2)],
            [name |-> "Budget",      sheet |-> MultiSheet("Department", c3)] >> :
            c1 \in ProjectColumns, c2 \in MultiColumns, c3 \in {<<>>, <<Text("B")>>, <<Text(" C")>>, <<Text("B.")>>}}

\* sheet_configs of split_workbook_multi_sheet: the column patterns by sheet
SheetPatterns == << <<"project", "proj">>, <<"department", "dept">>, <<"department", "dept">> >>

\* remove_columns: none, or the default of split_workbook_multi_sheet
RemoveChoices == {<<>>, <<"unnamed", "project/department">>}

\* the defaults of skip_totals, case_insensitive and include_empty
DefaultFlags == [skip_totals |-> TRUE, case_insensitive |-> FALSE, include_empty |-> FALSE]

\* group lists a direct caller of export_clone_multi_sheet may pass
MultiGroupLists ==
    LET labels == {"A", "B", "Z"}
    IN  {<<>>} \cup {<<g>> : g \in labels}
          \cup {pair \in labels \X labels : pair[1] # pair[2]}

\* list(all_groups): the members of a set in any order
Orderings(S) ==
    {order \in [1..Cardinality(S) -> S] : {order[i] : i \in 1..Cardinality(S)} = S}

SheetTitles == {workbook[i].name : i \in 1..Len(workbook)}

SheetTitled(title) == (CHOOSE i \in 1..Len(workbook) : workbook[i].name = title)

InitMulti ==
    /\ workbook \in MultiWorkbooks
    /\ multi_fn = ""
    /\ processed_sheets = <<>>
    /\ remove_columns = <<>>
    /\ multi_groups = <<>>
    /\ mgi = 1
    /\ multi_files = << >>
    /\ multi_manifest = <<>>
    /\ multi_log = <<>>
    /\ multi_failures = 0
    /\ multi_summary = NoSummary
    /\ multi_pc = "start"
    /\ cli_exit = ""
    /\ ExportIdle /\ CollectIdle /\ SheetIdle /\ DetectIdle /\ UtilIdle

\* export_clone_multi_sheet called for the second sheet with a group list of
\* the caller's choice, up to the for-loop
CallExportCloneMultiSheet ==
    /\ multi_pc = "start"
    /\ \E patterns \in RemoveChoices :
          \E sheet_data \in {analyze_sheet(workbook[2], SheetPatterns[2], patterns, DefaultFlags)},
             title \in {workbook[2].name, "Missing"} :
              /\ sheet_data.ok
              /\ remove_columns' = patterns
              /\ processed_sheets' = << [sheet_data EXCEPT !.sheet_name = title] >>
    /\ multi_groups' \in MultiGroupLists
    /\ multi_fn' = "export_clone_multi_sheet"
    /\ multi_pc' = "export"
    /\ UNCHANGED <<workbook, mgi, multi_files, multi_manifest, multi_log, multi_failures,
                   multi_summary>>
    /\ UNCHANGED <<cli_exit, exportVars, collectVars, sheetVars, detectVars, utilVars>>

\* split_workbook_multi_sheet, the loop over sheet_configs: the sheets whose
\* analysis succeeded
ProcessedSheets(wb, patterns) ==
    LET analysed == [i \in 1..3 |->
                        analyze_sheet(wb[i], SheetPatterns[i], patterns, DefaultFlags)]
    IN  SelectSeq(analysed, LAMBDA sheet_data : sheet_data.ok)

\* all_groups holding the groups of the first sheet only
AllGroups_FirstSheet(processed) ==
    {processed[1].groups[j] : j \in 1..Len(processed[1].groups)}

\* all_groups of split_workbook_multi_sheet
AllGroups(processed) ==
    UNION {{processed[i].groups[j] : j \in 1..Len(processed[i].groups)} :
              i \in 1..Len(processed)}

\* split_workbook_multi_sheet up to the for-loop of
\* create_multi_sheet_files_per_group: every sheet is analysed, the groups
\* are united, and the workbook is loaded again, which may raise
SplitWorkbookMultiSheet ==
    /\ multi_pc = "start"
    /\ Len(workbook) >= 3
    /\ \E patterns \in RemoveChoices :
          /\ remove_columns' = patterns
          /\ processed_sheets' = ProcessedSheets(workbook, patterns)
          /\ processed_sheets' # <<>>
          /\ multi_groups' \in Orderings(AllGroups(processed_sheets'))
    /\ multi_fn' = "create_multi_sheet_files_per_group"
    /\ \/ multi_pc' = "export" /\ multi_failures' = multi_failures
       \/ /\ multi_failures < MaxFailures
          /\ multi_failures' = multi_failures + 1
          /\ multi_pc' = "raised"
    /\ UNCHANGED <<workbook, mgi, multi_files, multi_manifest, multi_log, multi_summary>>
    /\ UNCHANGED <<cli_exit, exportVars, collectVars, sheetVars, detectVars, utilVars>>

MultiInLoop(fn) == multi_pc = "export" /\ multi_fn = fn /\ mgi \in 1..Len(multi_groups)

MultiPath(base_name) == generate_unique_filename(base_name, ".xlsx", DOMAIN multi_files)

\* the rows export_clone_multi_sheet counts for the group in turn
CloneMultiRowCount ==
    LET sheet_data == processed_sheets[1]
    IN  Cardinality(PrunedForGroup(workbook[SheetTitled(sheet_data.sheet_name)].sheet,
                                   sheet_data.header_row, sheet_data.split_col_idx,
                                   remove_columns, multi_groups[mgi]).rows_to_keep)

\* export_clone_multi_sheet, one pass of the loop: load_workbook raises, or
\* the sheet is not in the workbook; the loop continues
ExportCloneMultiLoadFail ==
    /\ MultiInLoop("export_clone_multi_sheet")
    /\ \/ multi_failures < MaxFailures /\ multi_failures' = multi_failures + 1
       \/ processed_sheets[1].sheet_name \notin SheetTitles /\ multi_failures' = multi_failures
    /\ multi_log' = Append(multi_log, Logged(multi_groups[mgi], "failed", ""))
    /\ mgi' = mgi + 1
    /\ UNCHANGED <<multi_fn, workbook, processed_sheets, remove_columns, multi_groups,
                   multi_files, multi_manifest, multi_summary, multi_pc>>
    /\ UNCHANGED <<cli_exit, exportVars, collectVars, sheetVars, detectVars, utilVars>>

\* export_clone_multi_sheet, one pass of the loop: no data row matches
ExportCloneMultiSkip ==
    /\ MultiInLoop("export_clone_multi_sheet")
    /\ processed_sheets[1].sheet_name \in SheetTitles
    /\ CloneMultiRowCount = 0
    /\ multi_log' = Append(multi_log, Logged(multi_groups[mgi], "skipped", ""))
    /\ mgi' = mgi + 1
    /\ UNCHANGED <<multi_fn, workbook, processed_sheets, remove_columns, multi_groups,
                   multi_files, multi_manifest, multi_failures, multi_summary, multi_pc>>
    /\ UNCHANGED <<cli_exit, exportVars, collectVars, sheetVars, detectVars, utilVars>>

\* export_clone_multi_sheet, one pass of the loop: the pruned and filtered
\* copy is saved and the manifest entry appended
ExportCloneMultiWrite ==
    /\ MultiInLoop("export_clone_multi_sheet")
    /\ processed_sheets[1].sheet_name \in SheetTitles
    /\ CloneMultiRowCount # 0
    /\ \E sheet_data \in {processed_sheets[1]}, group \in {multi_groups[mgi]} :
        \E output_path \in {MultiPath(sanitize_filename(group) \o " - " \o sheet_data.sheet_name)} :
           /\ ~output_path.hang
           /\ multi_files' = Extend(multi_files, output_path.path,
                  CloneMultiOutput(workbook[SheetTitled(sheet_data.sheet_name)].sheet,
                                   sheet_data.header_row, sheet_data.split_col_idx,
                                   remove_columns, group))
           /\ multi_manifest' = Append(multi_manifest,
                  [sheet |-> sheet_data.sheet_name, group |-> group,
                   output_path |-> output_path.path, row_count |-> CloneMultiRowCount,
                   mode |-> "clone_multi"])
           /\ multi_log' = Append(multi_log, Logged(group, "written", output_path.path))
    /\ mgi' = mgi + 1
    /\ UNCHANGED <<multi_fn, workbook, processed_sheets, remove_columns, multi_groups,
                   multi_failures, multi_summary, multi_pc>>
    /\ UNCHANGED <<cli_exit, exportVars, collectVars, sheetVars, detectVars, utilVars>>

\* export_clone_multi_sheet, one pass of the loop: wb.save raises, the
\* except clause logs the error and the loop continues
ExportCloneMultiSaveFail ==
    /\ MultiInLoop("export_clone_multi_sheet")
    /\ processed_sheets[1].sheet_name \in SheetTitles
    /\ CloneMultiRowCount # 0
    /\ multi_failures < MaxFailures
    /\ multi_log' = Append(multi_log, Logged(multi_groups[mgi], "failed", ""))
    /\ multi_failures' = multi_failures + 1
    /\ mgi' = mgi + 1
    /\ UNCHANGED <<multi_fn, workbook, processed_sheets, remove_columns, multi_groups,
                   multi_files, multi_manifest, multi_summary, multi_pc>>
    /\ UNCHANGED <<cli_exit, exportVars, collectVars, sheetVars, detectVars, utilVars>>

\* the sheets create_multi_sheet_files_per_group builds for a group
GroupWorkbook(group) ==
    [i \in 1..Len(processed_sheets) |->
        LET sheet_data == processed_sheets[i]
            copied == copy_sheet_filtered_for_group(
                          workbook[SheetTitled(sheet_data.sheet_name)].sheet, group,
                          sheet_data, remove_columns)
        IN  [name |-> sheet_data.sheet_name, sheet |-> copied.sheet,
             rows_added |-> copied.rows_added]]

RECURSIVE SumRows(_)
SumRows(sheets) ==
    IF sheets = <<>> THEN 0 ELSE Head(sheets).rows_added + SumRows(Tail(sheets))

PerGroupFilename(group) == sanitize_filename(group) \o "_SG&A YTD Budget report.xlsx"

\* create_multi_sheet_files_per_group, one pass of the loop: the workbook of
\* the group is built and saved and the manifest entry appended
PerGroupWrite ==
    /\ MultiInLoop("create_multi_sheet_files_per_group")
    /\ \E group \in {multi_groups[mgi]} :
        \E sheets \in {GroupWorkbook(group)}, output_path \in {MultiPath(PerGroupFilename(group))} :
           /\ ~output_path.hang
           /\ multi_files' = Extend(multi_files, output_path.path,
                  [i \in 1..Len(sheets) |-> [name |-> sheets[i].name, sheet |-> sheets[i].sheet]])
           /\ multi_manifest' = Append(multi_manifest,
                  [mode |-> "multi_sheet_per_group", group |-> group,
                   output_path |-> output_path.path,
                   sheets_included |-> [i \in 1..Len(sheets) |-> sheets[i].name],
                   total_rows |-> SumRows(sheets)])
           /\ multi_log' = Append(multi_log, Logged(group, "written", output_path.path))
    /\ mgi' = mgi + 1
    /\ UNCHANGED <<multi_fn, workbook, processed_sheets, remove_columns, multi_groups,
                   multi_failures, multi_summary, multi_pc>>
    /\ UNCHANGED <<cli_exit, exportVars, collectVars, sheetVars, detectVars, utilVars>>

\* create_multi_sheet_files_per_group, one pass of the loop: group_wb.save
\* raises; the finally clauses close the workbooks and the exception leaves
\* the function and split_workbook_multi_sheet
PerGroupSaveFail ==
    /\ MultiInLoop("create_multi_sheet_files_per_group")
    /\ multi_failures < MaxFailures
    /\ ~MultiPath(PerGroupFilename(multi_groups[mgi])).hang
    /\ multi_log' = Append(multi_log, Logged(multi_groups[mgi], "failed", ""))
    /\ multi_failures' = multi_failures + 1
    /\ multi_pc' = "raised"
    /\ UNCHANGED <<multi_fn, workbook, processed_sheets, remove_columns, multi_groups, mgi,
                   multi_files, multi_manifest, multi_summary>>
    /\ UNCHANGED <<cli_exit, exportVars, collectVars, sheetVars, detectVars, utilVars>>

\* summary_data of split_workbook_multi_sheet, under the keys of the dict
MultiSummary(processed, all_groups, entries) ==
    [input_file       |-> "workbook.xlsx",
     sheets_processed |-> [i \in 1..Len(processed) |-> processed[i].sheet_name],
     total_groups     |-> Len(all_groups),
     files_created    |-> Len(entries),
     output_dir       |-> "out",
     manifest_entries |-> entries]

\* the loop is over: the manifest is returned, and split_workbook_multi_sheet
\* returns its summary
MultiFinish ==
    /\ multi_pc = "export"
    /\ mgi > Len(multi_groups)
    /\ multi_summary' = IF multi_fn = "create_multi_sheet_files_per_group"
                        THEN MultiSummary(processed_sheets, multi_groups, multi_manifest)
                        ELSE multi_summary
    /\ multi_pc' = "done"
    /\ UNCHANGED <<multi_fn, workbook, processed_sheets, remove_columns, multi_groups, mgi,
                   multi_files, multi_manifest, multi_log, multi_failures>>
    /\ UNCHANGED <<cli_exit, exportVars, collectVars, sheetVars, detectVars, utilVars>>

\* the multi-sheet command of the CLI after split_workbook_multi_sheet: an
\* exception of the split, or of reading the summary, ends it in the except
\* clause, which prints the error and exits with status 1
MultiSheetCommand ==
    /\ multi_fn = "create_multi_sheet_files_per_group"
    /\ multi_pc \in {"done", "raised"}
    /\ cli_exit = ""
    /\ cli_exit' = IF /\ multi_pc = "done"
                      /\ {"manifest_entries", "total_files_created", "output_dir"}
                            \subseteq DOMAIN multi_summary
                   THEN "success" ELSE "error"
    /\ UNCHANGED <<multi_fn, workbook, processed_sheets, remove_columns, multi_groups, mgi,
                   multi_files, multi_manifest, multi_log, multi_failures, multi_summary,
                   multi_pc>>
    /\ UNCHANGED <<exportVars, collectVars, sheetVars, detectVars, utilVars>>

NextMulti ==
    \/ CallExportCloneMultiSheet
    \/ SplitWorkbookMultiSheet
    \/ ExportCloneMultiLoadFail
    \/ ExportCloneMultiSkip
    \/ ExportCloneMultiWrite
    \/ ExportCloneMultiSaveFail
    \/ PerGroupWrite
    \/ PerGroupSaveFail
    \/ MultiFinish
    \/ MultiSheetCommand

SpecMulti == InitMulti /\ [][NextMulti]_vars

\* C5: a load or write failure on one group is swallowed at that group: the
\* group gets no manifest entry, the batch is not aborted and every group of
\* the list is still handled; in export_fast and export_clone as in
\* export_clone_multi_sheet and create_multi_sheet_files_per_group.
C5_GroupFailureIsSwallowed ==
    LET swallowed(record, entries, list, at) ==
            /\ Len(entries) = Cardinality({i \in 1..Len(record) : record[i].outcome = "written"})
            /\ (\E i \in 1..Len(record) : record[i].outcome = "failed")
                  => at \in {"export", "done"}
            /\ at = "done" => Len(record) = Len(list)
    IN  /\ swallowed(log, manifest_entries, groups, pc)
        /\ swallowed(multi_log, multi_manifest, multi_groups, multi_pc)

C19_SummaryCarriesTotalFilesCreated ==
    (multi_fn = "create_multi_sheet_files_per_group" /\ multi_pc = "done")
       => /\ "total_files_created" \in DOMAIN multi_summary
          /\ multi_summary.total_files_created = Cardinality(DOMAIN multi_files)
          /\ cli_exit # "error"

\* C24: in create_multi_sheet_files_per_group a group for which no sheet
\* contributes a matching data row gets no output file and no manifest
\* entry: every manifest entry of the function has total_rows >= 1, and the
\* file it names holds at least one data row.
C24_NoFileForGroupWithoutRows ==
    \A e \in 1..Len(multi_manifest) :
        multi_manifest[e].mode = "multi_sheet_per_group" =>
            /\ multi_manifest[e].total_rows >= 1
            /\ \E i \in 1..Len(multi_files[multi_manifest[e].output_path]) :
                  Len(multi_files[multi_manifest[e].output_path][i].sheet)
                      > processed_sheets[i].header_row + 1

RECURSIVE C30_NamesInOrder(_, _)
\* the file names create_multi_sheet_files_per_group gives the groups when
\* it takes them in this order, in a directory that holds the names taken
C30_NamesInOrder(order, taken) ==
    IF order = <<>> THEN <<>>
    ELSE LET output_path == generate_unique_filename(PerGroupFilename(Head(order)), ".xlsx", taken)
         IN  <<output_path.path>>
               \o C30_NamesInOrder(Tail(order), taken \cup {output_path.path})

\* C30: multi-sheet export is deterministic: the order in which
\* split_workbook_multi_sheet hands the groups to the exporter, and the file
\* name each group receives (including the group that receives " #2" when
\* two labels sanitize to the same base name), are the only ones the input
\* and the initial output directory allow.
C30_GroupOrderIsDetermined ==
    multi_fn = "create_multi_sheet_files_per_group" =>
        \A order \in Orderings(AllGroups(processed_sheets)) :
            /\ order = multi_groups
            /\ C30_NamesInOrder(order, {}) = C30_NamesInOrder(multi_groups, {})

(***************************************************************************)
(* The column pruning helpers called on a header row                       *)
(***************************************************************************)

\* the widest header row handed to the pruning helpers
MaxPruneCols == 3

\* a header row of distinct headers, removal patterns, and the protected
\* column, which may itself match the patterns
InitPrune ==
    /\ prune_sheet \in
          {<<row>> : row \in {r \in UNION {[1..n -> {None, Text("ID"), Text("Project/Department"),
                                                      Text("Unnamed: 3"), Text(" Department ")}] :
                                              n \in 1..MaxPruneCols} :
                                \A i \in 1..Len(r), j \in 1..Len(r) : i # j => r[i] # r[j]}}
    /\ prune_patterns \in {<<>>, <<"unnamed", "project/department">>, <<"Department">>,
                            <<"id">>, <<"">>}
    /\ prune_preserve \in 0..(MaxPruneCols - 1)
    /\ prune_preserve < Len(prune_sheet[1])
    /\ prune_removed = {}
    /\ prune_kept = <<>>
    /\ prune_ran = {}
    /\ NameIdle /\ EntryIdle
    /\ StageIdle
    /\ CopyIdle
    /\ ExportIdle /\ CollectIdle /\ SheetIdle /\ DetectIdle /\ MultiIdle

\* the name of the protected column in the DataFrame read from the sheet
PreserveColumn == read_sheet_as_dataframe(prune_sheet, 0).columns[prune_preserve + 1]

IdentifyColumnsToRemove ==
    /\ "_identify_columns_to_remove" \notin prune_ran
    /\ prune_removed' = identify_columns_to_remove(prune_sheet, 0, prune_patterns, prune_preserve)
    /\ prune_ran' = prune_ran \cup {"_identify_columns_to_remove"}
    /\ UNCHANGED <<prune_sheet, prune_patterns, prune_preserve, prune_kept>>
    /\ UNCHANGED <<nameVars, entryVars, stageVars, copyVars, exportVars, collectVars, sheetVars, detectVars, multiVars>>

RemoveUnwantedColumns ==
    /\ "_remove_unwanted_columns" \notin prune_ran
    /\ prune_kept' = remove_unwanted_columns(read_sheet_as_dataframe(prune_sheet, 0),
                                             prune_patterns, PreserveColumn).columns
    /\ prune_ran' = prune_ran \cup {"_remove_unwanted_columns"}
    /\ UNCHANGED <<prune_sheet, prune_patterns, prune_preserve, prune_removed>>
    /\ UNCHANGED <<nameVars, entryVars, stageVars, copyVars, exportVars, collectVars, sheetVars, detectVars, multiVars>>

SpecPrune == InitPrune /\ [][IdentifyColumnsToRemove \/ RemoveUnwantedColumns]_vars

\* C12: column pruning never selects the protected grouping column,
\* whatever its header and whatever the removal patterns:
\* _identify_columns_to_remove never returns preserve_col_idx and
\* _remove_unwanted_columns always keeps preserve_column.
C12_ProtectedColumnIsKept ==
    /\ "_identify_columns_to_remove" \in prune_ran => prune_preserve \notin prune_removed
    /\ "_remove_unwanted_columns" \in prune_ran
          => \E c \in 1..Len(prune_kept) : prune_kept[c] = PreserveColumn

\* C12 witness: the protected column is headed "Project/Department" and the
\* default patterns remove the "Unnamed: 3" column next to it, and only that.
C12_Witness ==
    /\ prune_ran = {"_identify_columns_to_remove", "_remove_unwanted_columns"}
    /\ prune_sheet = << <<Text("ID"), Text("Project/Department"), Text("Unnamed: 3")>> >>
    /\ prune_patterns = <<"unnamed", "project/department">>
    /\ prune_preserve = 1
    /\ prune_removed = {2}
    /\ prune_kept = <<"ID", "Project/Department">>

(***************************************************************************)
(* sanitize_filename called on a text                                      *)
(***************************************************************************)

\* the longest text spelled out character by character
MaxTextLen == 3

RECURSIVE Repeat(_, _)
\* unit * n
Repeat(unit, n) ==
    IF n = 0 THEN ""
    ELSE IF n = 1 THEN unit
    ELSE Repeat(unit, n \div 2) \o Repeat(unit, n - n \div 2)

RECURSIVE Spell(_)
\* ''.join(chars)
Spell(chars) == IF Len(chars) = 0 THEN "" ELSE chars[1] \o Spell(Tail(chars))

\* every short text over a few characters, the group names of the tests, and
\* texts around the length limit
InitSanitize ==
    /\ san_text \in
          {Spell(chars) : chars \in UNION {[1..n -> {"a", "/", "?", " ", "\t", ".", "-"}] :
                                              n \in 0..MaxTextLen}}
          \cup {"Sales/Marketing", "IT<>Support", "Legal|Compliance", "a//b", "/a:b*"}
          \cup {Repeat("x", MaxFilenameLen), Repeat("x", MaxFilenameLen + 1),
                Repeat("a b", MaxFilenameLen \div 3 + 1), Repeat("a/.", MaxFilenameLen \div 3 + 4),
                Repeat("x", MaxFilenameLen - 1) \o " .y"}
    /\ san_result = ""
    /\ san_ran = FALSE
    /\ uniq_base = "" /\ uniq_existing = {} /\ uniq_log = <<>> /\ uniq_looping = FALSE
    /\ PruneIdle /\ EntryIdle
    /\ StageIdle
    /\ CopyIdle
    /\ ExportIdle /\ CollectIdle /\ SheetIdle /\ DetectIdle /\ MultiIdle

SanitizeFilename ==
    /\ ~san_ran
    /\ san_result' = sanitize_filename(san_text)
    /\ san_ran' = TRUE
    /\ UNCHANGED <<san_text, uniq_base, uniq_existing, uniq_log, uniq_looping>>
    /\ UNCHANGED <<pruneVars, entryVars, stageVars, copyVars, exportVars, collectVars, sheetVars, detectVars, multiVars>>

SpecSanitize == InitSanitize /\ [][SanitizeFilename]_vars

\* C13: for every text, sanitize_filename returns a base name that holds
\* none of the reserved characters \ / : * ? " < > |, is never empty (the
\* placeholder "Unknown" is returned for an empty or all-blank text and
\* whenever cleaning leaves nothing, which is when the text is made of
\* blanks and dots only), and is at most 200 characters long.
C13_SanitizedNameIsSafe ==
    san_ran =>
        /\ \A i \in 1..Len(san_result) :
              CharAt(san_result, i) \notin {"\\", "/", ":", "*", "?", "\"", "<", ">", "|"}
        /\ san_result # ""
        /\ Len(san_result) <= MaxFilenameLen
        /\ (\A i \in 1..Len(san_text) : CharAt(san_text, i) \in {" ", "\t", "\n", "."})
              => san_result = "Unknown"

\* C13 witness: a text longer than the limit that holds reserved characters
\* was cut to the limit, its reserved characters replaced.
C13_Witness ==
    /\ san_ran
    /\ Len(san_text) > MaxFilenameLen
    /\ Contains(san_text, "/")
    /\ Len(san_result) = MaxFilenameLen
    /\ Contains(san_result, "_")

MaxEvents == 4

\* the base names the exporters build for three group names, and an output
\* directory that holds some of the names the calls may try
InitUnique ==
    /\ uniq_base \in {BaseFilename(group) : group \in {"Sales", "v1.2", "a.b.c"}}
    /\ uniq_existing \in SUBSET {uniq_base \o ".xlsx", WithSuffix(uniq_base, ".xlsx"),
                                 NumberedPath(uniq_base, ".xlsx", 2),
                                 NumberedPath(uniq_base, ".xlsx", 3)}
    /\ uniq_log = <<>>
    /\ uniq_looping = FALSE
    /\ san_text = "" /\ san_result = "" /\ san_ran = FALSE
    /\ PruneIdle /\ EntryIdle
    /\ StageIdle
    /\ CopyIdle
    /\ ExportIdle /\ CollectIdle /\ SheetIdle /\ DetectIdle /\ MultiIdle

\* a call that returns
GenerateUniqueFilename ==
    /\ ~uniq_looping
    /\ Len(uniq_log) < MaxEvents
    /\ \E found \in {generate_unique_filename(uniq_base, ".xlsx", uniq_existing)} :
          /\ ~found.hang
          /\ uniq_log' = Append(uniq_log, [event |-> "returned", path |-> found.path,
                                           existing |-> uniq_existing])
    /\ UNCHANGED <<uniq_base, uniq_existing, uniq_looping>>
    /\ UNCHANGED <<san_text, san_result, san_ran>>
    /\ UNCHANGED <<pruneVars, entryVars, stageVars, copyVars, exportVars, collectVars, sheetVars, detectVars, multiVars>>

\* a call whose while-loop finds every path it tries taken
GenerateUniqueFilenameLoops ==
    /\ ~uniq_looping
    /\ generate_unique_filename(uniq_base, ".xlsx", uniq_existing).hang
    /\ uniq_looping' = TRUE
    /\ UNCHANGED <<uniq_base, uniq_existing, uniq_log>>
    /\ UNCHANGED <<san_text, san_result, san_ran>>
    /\ UNCHANGED <<pruneVars, entryVars, stageVars, copyVars, exportVars, collectVars, sheetVars, detectVars, multiVars>>

\* the caller saves its workbook under the path it was given
SaveFile ==
    /\ ~uniq_looping
    /\ Len(uniq_log) < MaxEvents
    /\ uniq_log # <<>>
    /\ uniq_log[Len(uniq_log)].event = "returned"
    /\ uniq_existing' = uniq_existing \cup {uniq_log[Len(uniq_log)].path}
    /\ uniq_log' = Append(uniq_log, [event |-> "saved", path |-> uniq_log[Len(uniq_log)].path,
                                     existing |-> uniq_existing])
    /\ UNCHANGED <<uniq_base, uniq_looping>>
    /\ UNCHANGED <<san_text, san_result, san_ran>>
    /\ UNCHANGED <<pruneVars, entryVars, stageVars, copyVars, exportVars, collectVars, sheetVars, detectVars, multiVars>>

\* somebody removes a file from the output directory
RemoveFile ==
    /\ ~uniq_looping
    /\ Len(uniq_log) < MaxEvents
    /\ \E name \in uniq_existing :
          /\ uniq_existing' = uniq_existing \ {name}
          /\ uniq_log' = Append(uniq_log, [event |-> "removed", path |-> name,
                                           existing |-> uniq_existing])
    /\ UNCHANGED <<uniq_base, uniq_looping>>
    /\ UNCHANGED <<san_text, san_result, san_ran>>
    /\ UNCHANGED <<pruneVars, entryVars, stageVars, copyVars, exportVars, collectVars, sheetVars, detectVars, multiVars>>

SpecUnique ==
    InitUnique /\ [][GenerateUniqueFilename \/ GenerateUniqueFilenameLoops
                        \/ SaveFile \/ RemoveFile]_vars

\* C15: generate_unique_filename returns the unsuffixed path, base name
\* plus extension, when no file exists there; otherwise it returns the path
\* with " #k" appended to the base name for the smallest k >= 2 whose path
\* does not exist.  The returned path never names an existing file.
C15_SmallestFreeNumber ==
    LET plain == uniq_base \o ".xlsx"
        numbered(k) == uniq_base \o " #" \o IntToStr(k) \o ".xlsx"
        asClaimed(path, existing) ==
            /\ path \notin existing
            /\ plain \notin existing => path = plain
            /\ plain \in existing
                  => \E k \in 2..(Cardinality(existing) + 2) :
                        /\ path = numbered(k)
                        /\ \A j \in 2..(k - 1) : numbered(j) \in existing
    IN  /\ ~uniq_looping
        /\ \A i \in 1..Len(uniq_log) :
              uniq_log[i].event = "returned"
                 => asClaimed(uniq_log[i].path, uniq_log[i].existing)

\* C16 as stated: across the calls for one base name within a run, a
\* numbered path that was handed out is never handed out again, even when
\* the file that carried it has been removed in the meantime.
C16_NumberNeverReused ==
    \A i \in 1..Len(uniq_log), j \in 1..Len(uniq_log) :
        (/\ i < j
         /\ uniq_log[i].event = "returned" /\ uniq_log[j].event = "returned"
         /\ uniq_log[i].path # WithSuffix(uniq_base, ".xlsx"))
           => uniq_log[i].path # uniq_log[j].path

\* C16 amended: a numbered path that was handed out is handed out again
\* only when no file carries it at that time: the file it was handed out
\* for was never saved, or was removed in the meantime.  The scan starts
\* at 2 on every call and keeps no record of the numbers handed out.
C16_NumberReusedOnlyWhenFree ==
    \A i \in 1..Len(uniq_log), j \in 1..Len(uniq_log) :
        (/\ i < j
         /\ uniq_log[i].event = "returned" /\ uniq_log[j].event = "returned"
         /\ uniq_log[i].path = uniq_log[j].path)
           => /\ uniq_log[j].path \notin uniq_log[j].existing
              /\ \A s \in (i + 1)..(j - 1) :
                    (uniq_log[s].event = "saved" /\ uniq_log[s].path = uniq_log[i].path)
                       => \E r \in (s + 1)..(j - 1) :
                             uniq_log[r].event = "removed" /\ uniq_log[r].path = uniq_log[i].path

\* C16 witness: " #2" is handed out, its file saved and removed, and " #2"
\* is handed out again.
C16_Witness ==
    /\ uniq_base = "Sales - SG&A Summary"
    /\ Len(uniq_log) = 4
    /\ uniq_log[1].event = "returned" /\ uniq_log[1].path = "Sales - SG&A Summary #2.xlsx"
    /\ uniq_log[2].event = "saved"
    /\ uniq_log[3].event = "removed" /\ uniq_log[3].path = "Sales - SG&A Summary #2.xlsx"
    /\ uniq_log[4].event = "returned" /\ uniq_log[4].path = "Sales - SG&A Summary #2.xlsx"

(***************************************************************************)
(* split_workbook from its call to the collected groups                    *)
(***************************************************************************)

\* split_workbook(input_path, sheet_name, dp_header, ..., fuzzy_sheet, ...)
\* after ensure_out_dir and up to collect_groups, with the default flags:
\* the state the call is left in.  dp_header is not read anywhere.
split_workbook(file, args) ==
    LET fails(error) ==
            [pc |-> "raised", error |-> error, sheet |-> "", dp_column |-> "", groups |-> <<>>]
        sheet_names == [i \in 1..Len(file.sheets) |-> file.sheets[i].name]
        grouped(title, frame, dp_col_name) ==
            [pc |-> "groups", error |-> "", sheet |-> title, dp_column |-> dp_col_name,
             groups |-> collect_groups(ColumnValues(frame, dp_col_name), TRUE, FALSE, FALSE)]
        loaded(title, sheet, located) ==
            IF ~located.found THEN fails("header not found")
            ELSE grouped(title, read_sheet_as_dataframe(sheet, located.row),
                           read_sheet_as_dataframe(sheet, located.row).columns[located.col + 1])
        resolved_as(target) ==
            IF ~target.ok THEN fails("sheet not found")
            ELSE loaded(target.name,
                      file.sheets[CHOOSE i \in 1..Len(file.sheets) :
                                     file.sheets[i].name = target.name].sheet,
                      detect_header_and_column(AsCells(
                          file.sheets[CHOOSE i \in 1..Len(file.sheets) :
                                         file.sheets[i].name = target.name].sheet)))
    IN  IF ~file.exists THEN fails("file not found")
        ELSE IF Lower(PathSuffix(file.name)) \notin {".xlsx", ".xlsm"}
             THEN fails("not an Excel file")
        ELSE IF ~file.valid THEN fails("failed to load")
        ELSE resolved_as(find_target_sheet_name(sheet_names, args.sheet_name, args.fuzzy_sheet))

\* input paths that are missing, misnamed, corrupt or workbooks of one or
\* two sheets; a requested sheet and grouping column that exist or not; an
\* output directory that exists or not
InitCall ==
    /\ entry_file \in
          LET budget == << <<Text("ID"), Text("Department"), Text("Project")>>,
                            <<Num(1), Text("A"), Text("P")>>,
                            <<Num(2), Text("B"), Text("P")>> >>
              plain   == << <<Text("ID"), Text("Amount")>>, <<Num(1), Num(10)>> >>
              names   == {"budget.xlsx", "budget.XLSM", "budget.csv", "budget"}
              books   == {<< [name |-> "SG&A Summary", sheet |-> budget] >>,
                          << [name |-> "Sheet1", sheet |-> plain] >>,
                          << [name |-> "Sheet1", sheet |-> plain],
                             [name |-> "SG&A Summary", sheet |-> budget] >>}
          IN  {[name |-> n, exists |-> FALSE, valid |-> FALSE, sheets |-> <<>>] : n \in names}
                \cup {[name |-> n, exists |-> TRUE, valid |-> FALSE, sheets |-> <<>>] : n \in names}
                \cup {[name |-> n, exists |-> TRUE, valid |-> TRUE, sheets |-> b] :
                         n \in names, b \in books}
    /\ entry_args \in [sheet_name : {NoName, Named("SG&A Summary"), Named("Missing")},
                       dp_header : {NoName, Named("Department"), Named("Project"),
                                    Named("Region")},
                       fuzzy_sheet : BOOLEAN]
    /\ entry_out_dir \in {"absent", "exists"}
    /\ entry_state = NotCalled
    /\ PruneIdle /\ NameIdle
    /\ StageIdle
    /\ CopyIdle
    /\ ExportIdle /\ CollectIdle /\ SheetIdle /\ DetectIdle /\ MultiIdle

\* the call: ensure_out_dir(out_dir) first, then the workbook is loaded, the
\* sheet and the header located and the groups collected, or an exception
\* leaves the function
SplitWorkbookCall ==
    /\ entry_state.pc = "call"
    /\ entry_out_dir' = IF entry_out_dir = "absent" THEN "created" ELSE entry_out_dir
    /\ entry_state' = split_workbook(entry_file, entry_args)
    /\ UNCHANGED <<entry_file, entry_args>>
    /\ UNCHANGED <<pruneVars, nameVars, stageVars, copyVars, exportVars, collectVars, sheetVars, detectVars,
                   multiVars>>

SpecCall == InitCall /\ [][SplitWorkbookCall]_vars

\* C18: when split_workbook ends with a fatal error (missing file, wrong
\* extension, corrupt workbook, sheet not found, header not found), it has
\* raised before any group-level work and has created nothing on the
\* filesystem: no output file and no output directory that did not exist
\* before the call.
C18_FatalErrorCreatesNothing ==
    entry_state.pc = "raised"
       => /\ entry_state.groups = <<>>
          /\ entry_out_dir # "created"

\* C20: when dp_header is supplied to split_workbook, the split groups by
\* the column whose header is that name and the run fails if no such column
\* exists; the grouping column is auto-detected only when the name is
\* omitted.
C20_SuppliedHeaderDecidesColumn ==
    LET supplied == entry_args.dp_header
        \* some sheet of the workbook has a header cell with this text
        heads(name) ==
            \E i \in 1..Len(entry_file.sheets) :
                \E c \in 1..MaxColOf(entry_file.sheets[i].sheet) :
                    CellText(CellValue(entry_file.sheets[i].sheet, 1, c)) = name
    IN  /\ (entry_state.pc = "groups" /\ supplied.given)
              => entry_state.dp_column = supplied.name
        /\ (entry_state.pc # "call" /\ supplied.given /\ ~heads(supplied.name))
              => entry_state.pc = "raised"
        /\ (entry_state.pc = "groups" /\ ~supplied.given)
              => candidate_name_matches(entry_state.dp_column)

(***************************************************************************)
(* One group in the loop body of export_clone_multi_sheet, statement by    *)
(* statement.  The exceptions of the loop body are part of SpecMulti.      *)
(***************************************************************************)

\* the widest sheet and the most data rows handed to the loop body
MaxStageCols == 3
MaxStageRows == 2

StageHeaders == <<"Unnamed: 0", "Project/Department", "ID", "Department">>

\* the header rows: distinct headers, in any order
StageHeaderRows ==
    UNION {{h \in [1..n -> 1..Len(StageHeaders)] : \A i, j \in 1..n : h[i] = h[j] => i = j}
              : n \in 2..MaxStageCols}

\* the sheet with a banner above the header or none, every cell outside the
\* grouping column telling its column and row
StageSheet(banner, h, split, cells) ==
    (IF banner = 1 THEN <<[c \in 1..Len(h) |-> IF c = 1 THEN Text("SG&A") ELSE None]>> ELSE <<>>)
        \o <<[c \in 1..Len(h) |-> Text(StageHeaders[h[c]])]>>
        \o [r \in 1..Len(cells) |->
              [c \in 1..Len(h) |-> IF c = split THEN cells[r] ELSE Num(10 * r + h[c])]]

\* the stage the loop body reaches next, going by the row count even when
\* it is zero
NextStage_NoSkip(stage, row_count) ==
    CASE stage = "Planned" -> "ColumnsFiltered"
      [] stage = "ColumnsFiltered" -> "RowsIdentified"
      [] stage = "RowsIdentified" -> "RowsFiltered"
      [] stage = "RowsFiltered" -> "FormattingFinalized"
      [] stage = "FormattingFinalized" -> "Written"
      [] OTHER -> "Done"

\* the stage the loop body reaches next: its statements in their order, and
\* the continue on row_count == 0
NextStage(stage, row_count) ==
    CASE stage = "Planned" -> "ColumnsFiltered"
      [] stage = "ColumnsFiltered" -> "RowsIdentified"
      [] stage = "RowsIdentified" -> IF row_count = 0 THEN "Skipped" ELSE "RowsFiltered"
      [] stage = "RowsFiltered" -> "FormattingFinalized"
      [] stage = "FormattingFinalized" -> "Written"
      [] OTHER -> "Done"

\* the workbook is loaded and ws is the sheet; the grouping column is one
\* a department header names
InitStages ==
    /\ \E banner \in 0..1, h \in StageHeaderRows,
          cells \in UNION {[1..n -> {None, Text("A"), Text(" A")}] : n \in 0..MaxStageRows},
          remove \in {<<>>, <<"id">>}, group \in {"A", "Z"} :
          \E split \in {c \in 1..Len(h) : StageHeaders[h[c]] \in {"Department", "Project/Department"}} :
              /\ stage_call = [sheet |-> StageSheet(banner, h, split, cells),
                               header_row |-> banner,
                               original_split_col_idx |-> split - 1,
                               remove_columns |-> remove,
                               group |-> group]
              /\ stage_ws = StageSheet(banner, h, split, cells)
    /\ stage_local = NotStarted
    /\ stage_trace = <<>>
    /\ PruneIdle /\ NameIdle /\ EntryIdle /\ CopyIdle
    /\ ExportIdle /\ CollectIdle /\ SheetIdle /\ DetectIdle /\ MultiIdle

StageReaches(stage) ==
    /\ NextStage(stage_local.stage, stage_local.row_count) = stage
    /\ stage_trace' = Append(stage_trace, stage)

StageUnchanged ==
    UNCHANGED <<stage_call, pruneVars, nameVars, entryVars, copyVars, exportVars, collectVars,
                sheetVars, detectVars, multiVars>>

\* columns_to_remove, the adjusted index, and the columns deleted from right
\* to left
StageDeleteColumns ==
    /\ StageReaches("ColumnsFiltered")
    /\ \E columns_to_remove \in {identify_columns_to_remove(stage_ws, stage_call.header_row,
                                    stage_call.remove_columns, stage_call.original_split_col_idx)} :
          /\ stage_ws' = DeleteColsInOrder(stage_ws, Reverse(Ascending(columns_to_remove)))
          /\ stage_local' = [stage_local EXCEPT
                  !.stage = "ColumnsFiltered",
                  !.columns_to_remove = columns_to_remove,
                  !.deleted = Reverse(Ascending(columns_to_remove)),
                  !.adjusted_split_col_idx =
                      adjusted_split_col_idx(columns_to_remove, stage_call.original_split_col_idx)]
    /\ StageUnchanged

\* rows_to_keep and row_count, read in the adjusted column
StageIdentifyRows ==
    /\ StageReaches("RowsIdentified")
    /\ \E matching \in {MatchingRows(stage_ws, stage_call.header_row,
                                     stage_local.adjusted_split_col_idx, stage_call.group)} :
          stage_local' = [stage_local EXCEPT
              !.stage = "RowsIdentified",
              !.rows_to_keep = (1..(stage_call.header_row + 1)) \cup matching,
              !.row_count = Cardinality(matching)]
    /\ UNCHANGED stage_ws
    /\ StageUnchanged

\* if row_count == 0: the warning, wb.close() and continue
StageSkip ==
    /\ StageReaches("Skipped")
    /\ stage_local' = [stage_local EXCEPT !.stage = "Skipped"]
    /\ UNCHANGED stage_ws
    /\ StageUnchanged

\* the rows outside rows_to_keep deleted from the bottom to the top
StageDeleteRows ==
    /\ StageReaches("RowsFiltered")
    /\ stage_ws' = DeleteRowsInOrder(stage_ws,
          Reverse(Ascending(((stage_call.header_row + 2)..MaxRowOf(stage_ws))
                              \ stage_local.rows_to_keep)))
    /\ stage_local' = [stage_local EXCEPT !.stage = "RowsFiltered"]
    /\ StageUnchanged

\* _preserve_formatting, and the autofilter reset and put on what is left
StageFinalize ==
    /\ StageReaches("FormattingFinalized")
    /\ stage_local' = [stage_local EXCEPT
          !.stage = "FormattingFinalized",
          !.auto_filter = IF MaxRowOf(stage_ws) > stage_call.header_row + 1
                          THEN [top |-> stage_call.header_row + 1, right |-> MaxColOf(stage_ws),
                                bottom |-> MaxRowOf(stage_ws)]
                          ELSE NoFilter]
    /\ UNCHANGED stage_ws
    /\ StageUnchanged

\* wb.save(output_path)
StageSave ==
    /\ StageReaches("Written")
    /\ stage_local' = [stage_local EXCEPT
          !.stage = "Written",
          !.saved = <<[sheet |-> stage_ws, auto_filter |-> stage_local.auto_filter]>>]
    /\ UNCHANGED stage_ws
    /\ StageUnchanged

NextStages ==
    \/ StageDeleteColumns
    \/ StageIdentifyRows
    \/ StageSkip
    \/ StageDeleteRows
    \/ StageFinalize
    \/ StageSave

SpecStages == InitStages /\ [][NextStages]_vars

IsPrefixOf(s, t) == Len(s) <= Len(t) /\ s = SubSeq(t, 1, Len(s))

\* C22 as stated: a group passes through its stages in the order matching
\* rows identified, non-matching rows deleted, pruned columns deleted,
\* formatting and autofilter finalized, file written, or goes to Skipped
\* from the identified rows when none matches.
C22_RowsBeforeColumns ==
    \/ IsPrefixOf(stage_trace, <<"RowsIdentified", "RowsFiltered", "ColumnsFiltered",
                                 "FormattingFinalized", "Written">>)
    \/ stage_trace = <<"RowsIdentified", "Skipped">>

\* C22, amended: a group passes through its stages in the order pruned
\* columns deleted, matching rows identified, non-matching rows deleted,
\* formatting and autofilter finalized, file written; no stage runs before
\* its predecessor, each stage has done its work on the sheet, and a group
\* with zero matching rows goes to Skipped with no file written and no later
\* stage executed.
C22_ColumnsBeforeRows ==
    LET passed(stage) == \E i \in 1..Len(stage_trace) : stage_trace[i] = stage
        hdr == stage_call.header_row
    IN  /\ \/ IsPrefixOf(stage_trace, <<"ColumnsFiltered", "RowsIdentified", "RowsFiltered",
                                        "FormattingFinalized", "Written">>)
           \/ stage_trace = <<"ColumnsFiltered", "RowsIdentified", "Skipped">>
        /\ passed("ColumnsFiltered") =>
              MaxColOf(stage_ws)
                 = MaxColOf(stage_call.sheet) - Cardinality(stage_local.columns_to_remove)
        /\ (passed("RowsIdentified") /\ stage_local.row_count = 0) =>
              /\ ~passed("RowsFiltered") /\ ~passed("FormattingFinalized") /\ ~passed("Written")
              /\ stage_local.saved = <<>>
        /\ passed("Skipped") => stage_local.row_count = 0
        /\ passed("RowsFiltered") =>
              /\ MaxRowOf(stage_ws) = hdr + 1 + stage_local.row_count
              /\ \A r \in (hdr + 2)..MaxRowOf(stage_ws) :
                    CloneMatches(CellValue(stage_ws, r, stage_local.adjusted_split_col_idx + 1),
                                 stage_call.group)
        /\ passed("Written") <=> stage_local.saved # <<>>
        /\ passed("Written") =>
              stage_local.saved
                 = <<CloneMultiOutput(stage_call.sheet, hdr, stage_call.original_split_col_idx,
                                      stage_call.remove_columns, stage_call.group)>>

\* a banner, a column deleted, a row deleted, a row kept, the file written
C22_Witness ==
    /\ stage_trace = <<"ColumnsFiltered", "RowsIdentified", "RowsFiltered",
                       "FormattingFinalized", "Written">>
    /\ stage_call.header_row = 1
    /\ stage_local.columns_to_remove # {}
    /\ stage_local.row_count = 1
    /\ Len(stage_call.sheet) = 4
    /\ Len(stage_local.saved[1].sheet) = 3

\* C23: the pruned columns are deleted from the highest index to the lowest,
\* the adjusted split index is the original index minus the number of
\* removed indices smaller than it and addresses the original grouping
\* column in the pruned sheet, and the data rows kept for a group are
\* exactly the rows that match the group in the unpruned sheet.
C23_AdjustedIndexAddressesGroupingColumn ==
    LET passed(stage) == \E i \in 1..Len(stage_trace) : stage_trace[i] = stage
        hdr == stage_call.header_row
        original == stage_call.original_split_col_idx
        adjusted == stage_local.adjusted_split_col_idx
        source == stage_call.sheet
        in_source == MatchingRows(source, hdr, original, stage_call.group)
        kept_columns == Ascending((0..(MaxColOf(source) - 1)) \ stage_local.columns_to_remove)
    IN  /\ passed("ColumnsFiltered") =>
              /\ \A i, j \in 1..Len(stage_local.deleted) :
                    i < j => stage_local.deleted[i] > stage_local.deleted[j]
              /\ {stage_local.deleted[i] : i \in 1..Len(stage_local.deleted)}
                    = stage_local.columns_to_remove
              /\ adjusted = original - Cardinality({c \in stage_local.columns_to_remove : c < original})
              /\ original \notin stage_local.columns_to_remove
        /\ (passed("ColumnsFiltered") /\ ~passed("RowsFiltered")) =>
              \A r \in 1..MaxRowOf(source) :
                    /\ CellValue(stage_ws, r, adjusted + 1) = CellValue(source, r, original + 1)
                    /\ stage_ws[r] = [i \in 1..Len(kept_columns) |-> source[r][kept_columns[i] + 1]]
        /\ passed("RowsIdentified") =>
              /\ stage_local.rows_to_keep = (1..(hdr + 1)) \cup in_source
              /\ stage_local.row_count = Cardinality(in_source)
        /\ passed("Written") =>
              LET rows == Ascending((1..(hdr + 1)) \cup in_source)
              IN  stage_local.saved[1].sheet
                     = [k \in 1..Len(rows) |->
                           [i \in 1..Len(kept_columns) |-> source[rows[k]][kept_columns[i] + 1]]]

\* two columns deleted before the grouping column, one row of two kept
C23_Witness ==
    /\ stage_local.stage = "Written"
    /\ stage_call.original_split_col_idx = 2
    /\ stage_local.adjusted_split_col_idx = 0
    /\ stage_local.deleted = <<1, 0>>
    /\ stage_local.row_count = 1
    /\ Len(stage_call.sheet) = stage_call.header_row + 3

(***************************************************************************)
(* export_fast and export_clone on departments whose labels hold a dot or  *)
(* differ in case only, and an output directory that is not empty          *)
(***************************************************************************)

\* a file left in out_dir by an earlier run
LeftoverFile == [sheet |-> << <<Text("old")>> >>, auto_filter |-> NoFilter]

\* the names in out_dir before the run
LeftoverNames == {"A - SG&A Summary.xlsx"}

\* the input sheets: the header row, and an ID and a department in every
\* data row
DottedSheets ==
    LET GroupCells == {Text("A"), Text("a"), Text("R.D"), Text("R.E")}
    IN  {<< <<Text("ID"), Text("Department")>> >> \o [i \in 1..Len(column) |-> <<Num(i), column[i]>>] :
            column \in UNION {[1..n -> GroupCells] : n \in 0..MaxDataRows}}

InitNames ==
    /\ ws \in DottedSheets
    /\ mode \in {"fast", "clone"}
    /\ caller = ""
    /\ sheet_name = ""
    /\ header_row = 0
    /\ dp_col_idx = 0
    /\ df = EmptyFrame
    /\ groups = <<>>
    /\ gi = 1
    /\ out_files = [name \in LeftoverNames |-> LeftoverFile]
    /\ manifest_entries = <<>>
    /\ log = <<>>
    /\ failures = 0
    /\ summary = NoSummary
    /\ pc = "start"
    /\ CollectIdle /\ SheetIdle /\ DetectIdle /\ MultiIdle /\ UtilIdle

SpecNames == InitNames /\ [][Next]_vars

\* C25: for every group exported by export_fast or export_clone the output
\* file name is "<sanitize_filename(group)> - SG&A Summary.xlsx", or that
\* name with " #N" (N >= 2) before the extension, so the complete sanitized
\* label is part of the file name, also for a label that contains a dot.
C25_FileNameCarriesSanitizedLabel ==
    \A i \in 1..Len(manifest_entries) :
        LET label == sanitize_filename(manifest_entries[i].group)
        IN  \/ manifest_entries[i].output_path = label \o " - SG&A Summary.xlsx"
            \/ \E N \in 2..(Cardinality(DOMAIN out_files) + 1) :
                  manifest_entries[i].output_path
                     = label \o " - SG&A Summary #" \o IntToStr(N) \o ".xlsx"

\* C27: within one run of export_fast or export_clone the output_path values
\* of the manifest entries are pairwise distinct and none is a name that was
\* in the output directory before the run: no export overwrites the file of
\* another group or a file that was there before, also when distinct group
\* labels yield the same base file name.
C27_NoFileOverwritten ==
    /\ \A i, j \in 1..Len(manifest_entries) :
          manifest_entries[i].output_path = manifest_entries[j].output_path => i = j
    /\ \A i \in 1..Len(manifest_entries) :
          /\ manifest_entries[i].output_path \notin LeftoverNames
          /\ manifest_entries[i].output_path \in DOMAIN out_files
          /\ LET written == out_files[manifest_entries[i].output_path].sheet
             IN  /\ Len(written) = header_row + 1 + manifest_entries[i].row_count
                 /\ \A r \in (header_row + 2)..Len(written) :
                       CloneMatches(written[r][dp_col_idx + 1], manifest_entries[i].group)
    /\ \A name \in LeftoverNames : name \in DOMAIN out_files /\ out_files[name] = LeftoverFile

\* the departments R.D, R.E and A of one sheet: R.D and R.E share a base
\* name, and the name of A was taken before the run
C27_Witness ==
    /\ pc = "done"
    /\ caller = "split_workbook"
    /\ Len(manifest_entries) = 3
    /\ manifest_entries[1].group = "A"
    /\ manifest_entries[1].output_path = "A - SG&A Summary #2.xlsx"
    /\ manifest_entries[2].group = "R.D"
    /\ manifest_entries[3].group = "R.E"
    /\ manifest_entries[3].output_path = "R #2.xlsx"
    /\ WithSuffix(BaseFilename("R.D"), ".xlsx") = WithSuffix(BaseFilename("R.E"), ".xlsx")

\* C28: splitting loses and duplicates no rows: after export_clone has run
\* without a failure on the groups collect_groups returned for the sheet,
\* no data row is kept in more than one group's output, and every data row
\* whose trimmed grouping value is non-blank and not a total is kept in
\* exactly one group's output, whatever case_insensitive was.
C28_NoRowLostOrDuplicated ==
    LET kept_in(i) == LET written == out_files[manifest_entries[i].output_path].sheet
                      IN  {written[k] : k \in (header_row + 2)..Len(written)}
        holders(r) == {i \in 1..Len(manifest_entries) : ws[r] \in kept_in(i)}
        label(r) == IF ws[r][dp_col_idx + 1].k = "none" THEN ""
                    ELSE Strip(Str(ws[r][dp_col_idx + 1]))
    IN  (/\ pc = "done" /\ caller = "split_workbook" /\ mode = "clone"
         /\ \A i \in 1..Len(log) : log[i].outcome # "failed")
          => \A r \in (header_row + 2)..Len(ws) :
                /\ Cardinality(holders(r)) <= 1
                /\ (label(r) # "" /\ ~is_total_row(label(r))) => Cardinality(holders(r)) = 1

(***************************************************************************)
(* _copy_sheet_filtered_for_group called on a sheet as analysed by         *)
(* _analyze_sheet_for_multi_processing                                     *)
(***************************************************************************)

\* the widest sheet and the most data rows handed to the copy
MaxCopyCols == 3
MaxCopyRows == 2

\* the sheets: a header row whose cells may be blank or repeat, and data
\* rows with the department in every column headed "Department" and a
\* number telling row and column in the others
CopySheets ==
    LET HeaderCells == {None, Text("ID"), Text("Amount"), Text("Department"),
                        Text("Project/Department")}
        sheet(h, departments) ==
            <<h>> \o [r \in 1..Len(departments) |->
                        [c \in 1..Len(h) |-> IF h[c] = Text("Department")
                                             THEN Text(departments[r]) ELSE Num(10 * r + c)]]
    IN  {sheet(h, departments) :
            h \in UNION {[1..n -> HeaderCells] : n \in 2..MaxCopyCols},
            departments \in UNION {[1..n -> {"A", "B"}] : n \in 0..MaxCopyRows}}

\* the sheet is analysed with the patterns of a department sheet, and the
\* group is one of the sheet or one that only another sheet holds
InitCopy ==
    /\ \E sheet \in CopySheets, remove \in RemoveChoices :
          \E sheet_data \in {analyze_sheet([name |-> "Departments", sheet |-> sheet],
                                           SheetPatterns[2], remove, DefaultFlags)} :
              /\ sheet_data.ok
              /\ copy_ws = sheet
              /\ \E group \in {sheet_data.groups[i] : i \in 1..Len(sheet_data.groups)} \cup {"Z"} :
                    copy_args = [group |-> group, sheet_data |-> sheet_data,
                                 remove_columns |-> remove]
    /\ copy_new = NotCopied
    /\ PruneIdle /\ NameIdle /\ EntryIdle /\ StageIdle
    /\ ExportIdle /\ CollectIdle /\ SheetIdle /\ DetectIdle /\ MultiIdle

CopySheetFilteredForGroup ==
    /\ ~copy_new.returned
    /\ \E copied \in {copy_sheet_filtered_for_group(copy_ws, copy_args.group,
                          copy_args.sheet_data, copy_args.remove_columns)} :
          copy_new' = [returned |-> TRUE, sheet |-> copied.sheet, rows_added |-> copied.rows_added]
    /\ UNCHANGED <<copy_ws, copy_args>>
    /\ UNCHANGED <<pruneVars, nameVars, entryVars, stageVars, exportVars, collectVars,
                   sheetVars, detectVars, multiVars>>

SpecCopy == InitCopy /\ [][CopySheetFilteredForGroup]_vars

\* C29: column alignment survives pruning: in every data row written by
\* _copy_sheet_filtered_for_group the value under each output header cell
\* is the value the source row has in the source column that carried that
\* header cell, for every header row, with blank header cells, repeated
\* header texts and removed columns to the left.
C29_ValuesStayUnderTheirHeaders ==
    LET hdr == copy_args.sheet_data.header_row
        removed == identify_columns_to_remove(copy_ws, hdr, copy_args.remove_columns,
                                              copy_args.sheet_data.split_col_idx)
        kept == Ascending({c \in 1..MaxColOf(copy_ws) : (c - 1) \notin removed})
        source == SelectSeq(read_sheet_as_dataframe(copy_ws, hdr).rows,
                     LAMBDA row : FastMatches(row[copy_args.sheet_data.split_col_idx + 1],
                                              copy_args.group))
    IN  copy_new.returned =>
          /\ Len(copy_new.sheet) = hdr + 1 + Len(source)
          /\ \A o \in 1..Len(kept) :
                /\ copy_new.sheet[hdr + 1][o] = copy_ws[hdr + 1][kept[o]]
                /\ \A r \in 1..Len(source) :
                      copy_new.sheet[hdr + 1 + r][o] = source[r][kept[o]]

=============================================================================
